---------------------------- MODULE Spec2Model ----------------------------
(***************************************************************************)
(* A model of the QOI encoder and decoder of qoi-rust: the header codec,   *)
(* the encoder builder, the per-pixel encoder loop over a bounded writer,   *)
(* and the slice decoder's per-opcode loop.  Bytes are naturals 0..255 and *)
(* all u8 arithmetic wraps modulo 256.                                      *)
(***************************************************************************)
EXTENDS Integers, Sequences, FiniteSets, TLC

(***************************************************************************)
(* Bounds of the model.                                                    *)
(***************************************************************************)
\* longest image (in pixels) drawn over the full palette
MaxPixels == 3
\* largest height the short images are folded into
MaxHeight == 2
\* most bytes cut off the end of an encoding before it is decoded
MaxCut == 9

(***************************************************************************)
(* u8 arithmetic.                                                          *)
(***************************************************************************)
Byte == 0..255

wrapping_add(a, b) == (a + b) % 256
wrapping_sub(a, b) == (a - b + 256) % 256
wrapping_mul(a, b) == (a * b) % 256

RECURSIVE BitOrN(_, _, _)
BitOrN(a, b, n) ==
    IF n = 0 THEN 0
    ELSE (IF (a % 2 = 1) \/ (b % 2 = 1) THEN 1 ELSE 0)
         + 2 * BitOrN(a \div 2, b \div 2, n - 1)

RECURSIVE BitAndN(_, _, _)
BitAndN(a, b, n) ==
    IF n = 0 THEN 0
    ELSE (IF (a % 2 = 1) /\ (b % 2 = 1) THEN 1 ELSE 0)
         + 2 * BitAndN(a \div 2, b \div 2, n - 1)

\* the u8 operators |, &, << and >>
BitOr(a, b) == BitOrN(a, b, 8)
BitAnd(a, b) == BitAndN(a, b, 8)
Shl(a, k) == (a * (2 ^ k)) % 256
Shr(a, k) == a \div (2 ^ k)

\* usize::saturating_sub
saturating_sub(a, b) == IF a < b THEN 0 ELSE a - b

Min(a, b) == IF a < b THEN a ELSE b

\* s[from+1 .. Len(s)]: the slice &s[from..]
Drop(s, k) == SubSeq(s, k + 1, Len(s))
\* &s[..k]
Take(s, k) == SubSeq(s, 1, k)

(***************************************************************************)
(* consts                                                                  *)
(***************************************************************************)
QOI_OP_INDEX == 0
QOI_OP_DIFF == 64
QOI_OP_LUMA == 128
QOI_OP_RUN == 192
QOI_OP_RGB == 254
QOI_OP_RGBA == 255

QOI_HEADER_SIZE == 14
QOI_PADDING == <<0, 0, 0, 0, 0, 0, 0, 1>>
QOI_PADDING_SIZE == 8
\* 'q' << 24 | 'o' << 16 | 'i' << 8 | 'f'
QOI_MAGIC == 113 * 16777216 + 111 * 65536 + 105 * 256 + 102
QOI_PIXELS_MAX == 400000000

QOI_OP_INDEX_END == BitOr(QOI_OP_INDEX, 63)
QOI_OP_RUN_END == BitOr(QOI_OP_RUN, 61)
QOI_OP_DIFF_END == BitOr(QOI_OP_DIFF, 63)
QOI_OP_LUMA_END == BitOr(QOI_OP_LUMA, 63)

(***************************************************************************)
(* Results: Ok(v) and Err(e); an error is a record with its kind and       *)
(* context fields.                                                         *)
(***************************************************************************)
Ok(v) == [ok |-> TRUE, val |-> v]
Err(e) == [ok |-> FALSE, err |-> e]

(***************************************************************************)
(* pixel: Pixel<N> is the sequence of its N bytes.                         *)
(***************************************************************************)
Pixel_new(N) == [k \in 1..N |-> 0]

\* Pixel::read: the first N bytes of s
read(px, s) == [k \in 1..Len(px) |-> s[k]]

as_rgba(px, a) ==
    <<px[1], px[2], px[3], IF Len(px) < 4 THEN a ELSE px[4]>>

with_a(px, value) == IF Len(px) >= 4 THEN [px EXCEPT ![4] = value] ELSE px

a_or(px, value) == IF Len(px) < 4 THEN value ELSE px[4]

\* mutant: a 3-byte pixel is hashed with alpha 0
hash_index_no_alpha(px) ==
    LET r == wrapping_mul(px[1], 3)
        g == wrapping_mul(px[2], 5)
        b == wrapping_mul(px[3], 7)
        a == wrapping_mul(a_or(px, 0), 11)
    IN  wrapping_add(wrapping_add(wrapping_add(r, g), b), a) % 64

\* Pixel::hash_index
hash_index(px) ==
    LET r == wrapping_mul(px[1], 3)
        g == wrapping_mul(px[2], 5)
        b == wrapping_mul(px[3], 7)
        a == wrapping_mul(a_or(px, 255), 11)
    IN  wrapping_add(wrapping_add(wrapping_add(r, g), b), a) % 64

\* literal R,G,B; alpha carried over
update_rgb(px, r, g, b) == [px EXCEPT ![1] = r, ![2] = g, ![3] = b]

\* literal R,G,B,A; a 3-byte pixel has no alpha to set
update_rgba(px, r, g, b, a) ==
    IF Len(px) >= 4 THEN <<r, g, b, a>> ELSE <<r, g, b>>

\* mutant: the channels stop at 255 instead of wrapping
rgb_add_saturating(px, r, g, b) ==
    [px EXCEPT ![1] = Min(px[1] + r, 255),
               ![2] = Min(px[2] + g, 255),
               ![3] = Min(px[3] + b, 255)]

rgb_add(px, r, g, b) ==
    [px EXCEPT ![1] = wrapping_add(px[1], r),
               ![2] = wrapping_add(px[2], g),
               ![3] = wrapping_add(px[3], b)]

\* DIFF: three 2-bit deltas biased by +2
update_diff(px, b1) ==
    rgb_add(px, wrapping_sub(BitAnd(Shr(b1, 4), 3), 2),
                wrapping_sub(BitAnd(Shr(b1, 2), 3), 2),
                wrapping_sub(BitAnd(b1, 3), 2))

\* LUMA: vg = payload1 - 32, vr = vg - 8 + (b2 >> 4), vb = vg - 8 + (b2 & 15)
update_luma(px, b1, b2) ==
    LET vg == wrapping_sub(BitAnd(b1, 63), 32)
        vg_8 == wrapping_sub(vg, 8)
        vr == wrapping_add(vg_8, BitAnd(Shr(b2, 4), 15))
        vb == wrapping_add(vg_8, BitAnd(b2, 15))
    IN  rgb_add(px, vr, vg, vb)

(***************************************************************************)
(* utils: BytesMut, the bounded writer.  bytes is what has been written,   *)
(* room the length of the slice still held, panic whether a write found    *)
(* the slice too short.                                                    *)
(***************************************************************************)
BytesMut_new(len) == [bytes |-> <<>>, room |-> len, panic |-> FALSE]

(***************************************************************************)
(* utils: GenericWriter, the writer over a sink that implements io::Write. *)
(* The sink holds the bytes it has taken, the number of bytes it will      *)
(* still take, the number of write_all calls made on it and whether one of *)
(* them has failed.                                                        *)
(***************************************************************************)
\* usize::MAX, cut to the 32 bits of the integers here
USIZE_MAX == 2147483647

\* a sink that takes room bytes and then fails, as &mut [u8] does
Sink(room) == [bytes |-> <<>>, room |-> room, calls |-> 0, failed |-> FALSE]

\* Write::write_all: all of v, or as much of it as the sink takes and an
\* i/o error
write_all(writer, v) ==
    IF Len(v) <= writer.room
    THEN [writer EXCEPT !.bytes = @ \o v, !.room = @ - Len(v),
                        !.calls = @ + 1]
    ELSE [writer EXCEPT !.bytes = @ \o Take(v, writer.room), !.room = 0,
                        !.calls = @ + 1, !.failed = TRUE]

GenericWriter_new(writer) ==
    [bytes |-> writer.bytes, room |-> writer.room, calls |-> writer.calls,
     failed |-> writer.failed, n_written |-> 0, panic |-> FALSE]

IsGenericWriter(buf) == "n_written" \in DOMAIN buf

\* GenericWriter::write_one and write_many: the count, then write_all; an
\* error ends the encoding (`?`), so that a failed writer takes no more
GenericWriter_write(buf, v) ==
    IF buf.failed THEN buf
    ELSE LET writer == write_all([bytes |-> buf.bytes, room |-> buf.room,
                                  calls |-> buf.calls, failed |-> FALSE], v)
         IN  [buf EXCEPT !.bytes = writer.bytes, !.room = writer.room,
                         !.calls = writer.calls, !.failed = writer.failed,
                         !.n_written = @ + Len(v)]

\* Writer::write_one of BytesMut and of GenericWriter
write_one(buf, v) ==
    IF IsGenericWriter(buf) THEN GenericWriter_write(buf, <<v>>)
    ELSE IF buf.panic THEN buf
    ELSE IF buf.room >= 1
         THEN [buf EXCEPT !.bytes = Append(@, v), !.room = @ - 1]
         ELSE [buf EXCEPT !.panic = TRUE]

\* Writer::write_many of BytesMut and of GenericWriter
write_many(buf, v) ==
    IF IsGenericWriter(buf) THEN GenericWriter_write(buf, v)
    ELSE IF buf.panic THEN buf
    ELSE IF buf.room >= Len(v)
         THEN [buf EXCEPT !.bytes = @ \o v, !.room = @ - Len(v)]
         ELSE [buf EXCEPT !.panic = TRUE]

\* Writer::capacity: the length of the slice still held, or what is left
\* of usize::MAX
capacity(buf) ==
    IF IsGenericWriter(buf) THEN USIZE_MAX - buf.n_written ELSE buf.room

\* Pixel::encode_into: the opcode of a pixel that is neither a repeat nor
\* an index hit, by the opcode-selection priority
encode_into(px, px_prev, buf) ==
    IF a_or(px, 0) # a_or(px_prev, 0)
    THEN write_many(buf, <<QOI_OP_RGBA, px[1], px[2], px[3], a_or(px, 255)>>)
    ELSE LET vr == wrapping_sub(px[1], px_prev[1])
             vg == wrapping_sub(px[2], px_prev[2])
             vb == wrapping_sub(px[3], px_prev[3])
             vr_2 == wrapping_add(vr, 2)
             vg_2 == wrapping_add(vg, 2)
             vb_2 == wrapping_add(vb, 2)
             vg_32 == wrapping_add(vg, 32)
             vg_r_8 == wrapping_add(wrapping_sub(vr, vg), 8)
             vg_b_8 == wrapping_add(wrapping_sub(vb, vg), 8)
         IN  IF BitOr(BitOr(BitOr(vr_2, vg_2), vb_2), 3) = 3
             THEN write_one(buf, BitOr(QOI_OP_DIFF,
                      BitOr(BitOr(Shl(vr_2, 4), Shl(vg_2, 2)), vb_2)))
             ELSE IF BitOr(vg_32, 63) = 63
                     /\ BitOr(BitOr(vg_r_8, vg_b_8), 15) = 15
                  THEN write_many(buf, <<BitOr(QOI_OP_LUMA, vg_32),
                                         BitOr(Shl(vg_r_8, 4), vg_b_8)>>)
                  ELSE write_many(buf, <<QOI_OP_RGB, px[1], px[2], px[3]>>)

(***************************************************************************)
(* types                                                                   *)
(***************************************************************************)
\* TryFrom<u8> for Channels
Channels_try_from(channels) ==
    IF channels # 3 /\ channels # 4
    THEN Err([kind |-> "InvalidChannels", channels |-> channels])
    ELSE Ok(IF channels = 3 THEN 3 ELSE 4)

\* TryFrom<u8> for ColorSpace
ColorSpace_try_from(colorspace) ==
    IF BitOr(colorspace, 1) # 1
    THEN Err([kind |-> "InvalidColorSpace", colorspace |-> colorspace])
    ELSE Ok(IF colorspace = 0 THEN 0 ELSE 1)

SourceChannels ==
    {"Rgb", "Bgr", "Rgba", "Argb", "Rgbx", "Xrgb", "Bgra", "Abgr", "Bgrx", "Xbgr"}

image_channels(sc) ==
    IF sc \in {"Rgb", "Bgr", "Rgbx", "Xrgb", "Bgrx", "Xbgr"} THEN 3 ELSE 4

\* mutant: every layout takes 4 bytes a pixel
bytes_per_pixel_four(sc) == 4

bytes_per_pixel(sc) == IF sc \in {"Rgb", "Bgr"} THEN 3 ELSE 4

(***************************************************************************)
(* header                                                                  *)
(***************************************************************************)
\* u32::to_be_bytes and u32::from_be_bytes
to_be_bytes(x) ==
    <<x \div 16777216, (x \div 65536) % 256, (x \div 256) % 256, x % 256>>

from_be_bytes(v) == v[1] * 16777216 + v[2] * 65536 + v[3] * 256 + v[4]

\* (width as usize).saturating_mul(height as usize) > QOI_PIXELS_MAX, for two
\* u32 values, whose product does not saturate a 64-bit usize; stated by
\* division so that the product is never formed
pixels_exceed_max(width, height) ==
    width # 0 /\ height > QOI_PIXELS_MAX \div width

\* mutant: no limit on the number of pixels
Header_try_new_no_limit(width, height, channels, colorspace) ==
    IF height = 0 \/ width = 0
    THEN Err([kind |-> "EmptyImage", width |-> width, height |-> height])
    ELSE Ok([width |-> width, height |-> height,
             channels |-> channels, colorspace |-> colorspace])

Header_try_new(width, height, channels, colorspace) ==
    IF height = 0 \/ width = 0
    THEN Err([kind |-> "EmptyImage", width |-> width, height |-> height])
    ELSE IF pixels_exceed_max(width, height)
         THEN Err([kind |-> "ImageTooLarge", width |-> width, height |-> height])
         ELSE Ok([width |-> width, height |-> height,
                  channels |-> channels, colorspace |-> colorspace])

\* mutant: height written before width
Header_encode_swapped(h) ==
    to_be_bytes(QOI_MAGIC) \o to_be_bytes(h.height) \o to_be_bytes(h.width)
        \o <<h.channels, h.colorspace>>

Header_encode(h) ==
    to_be_bytes(QOI_MAGIC) \o to_be_bytes(h.width) \o to_be_bytes(h.height)
        \o <<h.channels, h.colorspace>>

Header_decode(data) ==
    IF Len(data) < QOI_HEADER_SIZE
    THEN Err([kind |-> "InputBufferTooSmall", size |-> Len(data),
              required |-> QOI_HEADER_SIZE])
    ELSE LET magic == from_be_bytes(SubSeq(data, 1, 4))
             width == from_be_bytes(SubSeq(data, 5, 8))
             height == from_be_bytes(SubSeq(data, 9, 12))
             channels == Channels_try_from(data[13])
             colorspace == ColorSpace_try_from(data[14])
         IN  IF ~channels.ok THEN channels
             ELSE IF ~colorspace.ok THEN colorspace
             ELSE IF magic # QOI_MAGIC
                  THEN Err([kind |-> "InvalidMagic", magic |-> magic])
                  ELSE Header_try_new(width, height, channels.val, colorspace.val)

n_pixels(hdr) == hdr.width * hdr.height

(***************************************************************************)
(* encode: the builder, the size bound and the per-pixel loop.             *)
(***************************************************************************)
\* Option values
None == [some |-> FALSE]
Some(v) == [some |-> TRUE, v |-> v]

\* mutant: the bound without the one tag byte per pixel
encode_max_len_no_tags(width, height, channels) ==
    QOI_HEADER_SIZE + width * height * channels + QOI_PADDING_SIZE

encode_max_len(width, height, channels) ==
    LET np == width * height
    IN  QOI_HEADER_SIZE + np * channels + np + QOI_PADDING_SIZE

\* EncoderBuilder::build.  b is the builder: data, width, height and the
\* optional stride, source_channels and colorspace.  The argument of
\* unwrap_or is evaluated whether or not a stride was given, so a height of
\* 0 fails here in both cases.
EncoderBuilder_build(b) ==
    LET size == Len(b.data)
        lenErr == Err([kind |-> "InvalidImageLength", size |-> size,
                       width |-> b.width, height |-> b.height])
        strideErr(st) == Err([kind |-> "InvalidImageStride", size |-> size,
                              width |-> b.width, height |-> b.height,
                              stride |-> st])
        no_stride == ~b.stride.some
    IN  IF b.height = 0 THEN lenErr
        ELSE
        LET stride == IF b.stride.some THEN b.stride.v ELSE size \div b.height
            source_channels ==
                IF b.source_channels.some THEN b.source_channels.v
                ELSE IF stride = b.width * 3 THEN "Rgb" ELSE "Rgba"
            bpp == bytes_per_pixel(source_channels)
            channels == image_channels(source_channels)
            colorspace == IF b.colorspace.some THEN b.colorspace.v ELSE 0
            header == Header_try_new(b.width, b.height, channels, colorspace)
        IN  IF no_stride /\ size # b.width * b.height * bpp THEN lenErr
            ELSE IF ~no_stride /\ stride < b.width * bpp THEN strideErr(stride)
            ELSE IF ~no_stride
                    /\ stride * (b.height - 1) + b.width * bpp < size
                 THEN strideErr(stride)
            ELSE IF ~header.ok THEN header
            ELSE Ok([data |-> b.data, stride |-> stride,
                     source_channels |-> source_channels,
                     header |-> header.val])

\* mutant: the length without the header and the end marker
required_buf_len_payload(enc) ==
    n_pixels(enc.header) * (enc.header.channels + 1)

required_buf_len(enc) ==
    encode_max_len(enc.header.width, enc.header.height, enc.header.channels)

\* encode_impl_all: the const parameters N (bytes of the pixel the loop
\* works on) and R (bytes of a source pixel) of each layout's encode_impl
encode_N(sc) ==
    IF sc \in {"Rgb", "Bgr", "Rgbx", "Xrgb", "Bgrx"} THEN 3 ELSE 4

encode_R(sc) == IF sc \in {"Rgb", "Bgr"} THEN 3 ELSE 4

\* mutant: every layout is read as if its bytes were in canonical order
read_px_plain(sc, px, c) == read(px, c)

\* encode_impl_all: the read_px closure of each layout; c is the source
\* chunk (1-based here)
read_px(sc, px, c) ==
    CASE sc = "Rgb" -> read(px, c)
      [] sc = "Bgr" -> update_rgb(px, c[3], c[2], c[1])
      [] sc = "Rgba" -> read(px, c)
      [] sc = "Argb" -> update_rgba(px, c[2], c[3], c[4], c[1])
      [] sc = "Rgbx" -> read(px, Take(c, 3))
      [] sc = "Xrgb" -> update_rgb(px, c[2], c[3], c[4])
      [] sc = "Bgra" -> update_rgba(px, c[3], c[2], c[1], c[4])
      [] sc = "Abgr" -> update_rgba(px, c[4], c[3], c[2], c[1])
      [] sc = "Bgrx" -> update_rgb(px, c[3], c[2], c[1])
      [] sc = "Xbgr" -> update_rgb(px, c[4], c[3], c[2])

IndexLen == 256

\* mutant: the initial previous pixel is stored in its slot of the index
encode_init_seeded(N, buf) ==
    [index |-> [k \in 0..255 |->
                   IF k = hash_index(with_a(Pixel_new(N), 255))
                   THEN as_rgba(with_a(Pixel_new(N), 255), 255)
                   ELSE Pixel_new(4)],
     px_prev |-> with_a(Pixel_new(N), 255),
     hash_prev |-> hash_index(with_a(Pixel_new(N), 255)),
     run |-> 0,
     px |-> with_a(Pixel_new(N), 255),
     index_allowed |-> FALSE,
     i |-> 0,
     cap |-> capacity(buf),
     buf |-> buf]

\* mutant: every slot of the index starts as the initial previous pixel
encode_init_opaque_index(N, buf) ==
    [index |-> [k \in 0..255 |-> as_rgba(with_a(Pixel_new(N), 255), 255)],
     px_prev |-> with_a(Pixel_new(N), 255),
     hash_prev |-> hash_index(with_a(Pixel_new(N), 255)),
     run |-> 0,
     px |-> with_a(Pixel_new(N), 255),
     index_allowed |-> FALSE,
     i |-> 0,
     cap |-> capacity(buf),
     buf |-> buf]

\* mutant: the rewrite is allowed from the start
encode_init_index_allowed(N, buf) ==
    [index |-> [k \in 0..(IndexLen - 1) |-> Pixel_new(4)],
     px_prev |-> with_a(Pixel_new(N), 255),
     hash_prev |-> hash_index(with_a(Pixel_new(N), 255)),
     run |-> 0,
     px |-> with_a(Pixel_new(N), 255),
     index_allowed |-> TRUE,
     i |-> 0,
     cap |-> capacity(buf),
     buf |-> buf]

\* encode_impl, before the loop: buf is a writer
encode_init(N, buf) ==
    [index |-> [k \in 0..(IndexLen - 1) |-> Pixel_new(4)],
     px_prev |-> with_a(Pixel_new(N), 255),
     hash_prev |-> hash_index(with_a(Pixel_new(N), 255)),
     run |-> 0,
     px |-> with_a(Pixel_new(N), 255),
     index_allowed |-> FALSE,
     i |-> 0,
     cap |-> capacity(buf),
     buf |-> buf]

\* mutant: a run of one is rewritten to INDEX even before any pixel has
\* been stored in the index
run_flush_byte_unfixed(run, index_allowed, hash_prev, reference) ==
    IF ~reference /\ run = 1
    THEN BitOr(QOI_OP_INDEX, hash_prev)
    ELSE BitOr(QOI_OP_RUN, run - 1)

\* mutant: a run of one is rewritten to INDEX in reference mode too
run_flush_byte_no_reference(run, index_allowed, hash_prev, reference) ==
    IF run = 1 /\ index_allowed
    THEN BitOr(QOI_OP_INDEX, hash_prev)
    ELSE BitOr(QOI_OP_RUN, run - 1)

\* the byte that flushes a pending run before a pixel that differs
run_flush_byte(run, index_allowed, hash_prev, reference) ==
    IF ~reference /\ run = 1 /\ index_allowed
    THEN BitOr(QOI_OP_INDEX, hash_prev)
    ELSE BitOr(QOI_OP_RUN, run - 1)

\* mutant: a run pending at the last pixel is not written
run_ends_no_last(run, i, np) == run = 62

\* mutant: the run is written one pixel late
run_ends_late(run, i, np) == run = 63 \/ i = np - 1

\* whether the pending run is written at this pixel that repeats the last
run_ends(run, i, np) == run = 62 \/ i = np - 1

\* mutant: the previous pixel is not updated after INDEX
encode_pixel_index_keeps_prev(es, sc, chunk, np, reference) ==
    LET px == read_px(sc, es.px, chunk)
    IN  IF px = es.px_prev
        THEN LET run == es.run + 1
             IN  IF run_ends(run, es.i, np)
                 THEN [es EXCEPT !.px = px, !.run = 0, !.i = @ + 1,
                          !.buf = write_one(@, BitOr(QOI_OP_RUN, run - 1))]
                 ELSE [es EXCEPT !.px = px, !.run = run, !.i = @ + 1]
        ELSE LET buf1 == IF es.run # 0
                         THEN write_one(es.buf,
                                  run_flush_byte(es.run, es.index_allowed,
                                                 es.hash_prev, reference))
                         ELSE es.buf
                 px_rgba == as_rgba(px, 255)
                 hash == hash_index(px_rgba)
             IN  IF es.index[hash] = px_rgba
                 THEN [es EXCEPT !.px = px, !.run = 0, !.i = @ + 1,
                          !.index_allowed = TRUE, !.hash_prev = hash,
                          !.buf = write_one(buf1, BitOr(QOI_OP_INDEX, hash))]
                 ELSE [es EXCEPT !.px = px, !.run = 0, !.i = @ + 1,
                          !.index_allowed = TRUE, !.hash_prev = hash,
                          !.px_prev = px,
                          !.index = [@ EXCEPT ![hash] = px_rgba],
                          !.buf = encode_into(px, es.px_prev, buf1)]

\* encode_impl, one turn of the inner loop: the pixel read from chunk
encode_pixel(es, sc, chunk, np, reference) ==
    LET px == read_px(sc, es.px, chunk)
    IN  IF px = es.px_prev
        THEN LET run == es.run + 1
             IN  IF run_ends(run, es.i, np)
                 THEN [es EXCEPT !.px = px, !.run = 0, !.i = @ + 1,
                          !.buf = write_one(@, BitOr(QOI_OP_RUN, run - 1))]
                 ELSE [es EXCEPT !.px = px, !.run = run, !.i = @ + 1]
        ELSE LET buf1 == IF es.run # 0
                         THEN write_one(es.buf,
                                  run_flush_byte(es.run, es.index_allowed,
                                                 es.hash_prev, reference))
                         ELSE es.buf
                 px_rgba == as_rgba(px, 255)
                 hash == hash_index(px_rgba)
             IN  IF es.index[hash] = px_rgba
                 THEN [es EXCEPT !.px = px, !.run = 0, !.i = @ + 1,
                          !.index_allowed = TRUE, !.hash_prev = hash,
                          !.px_prev = px,
                          !.buf = write_one(buf1, BitOr(QOI_OP_INDEX, hash))]
                 ELSE [es EXCEPT !.px = px, !.run = 0, !.i = @ + 1,
                          !.index_allowed = TRUE, !.hash_prev = hash,
                          !.px_prev = px,
                          !.index = [@ EXCEPT ![hash] = px_rgba],
                          !.buf = encode_into(px, es.px_prev, buf1)]

\* data.chunks(stride).take(height): the number of rows the loop visits
rows_visited(size, stride, height) ==
    Min((size + stride - 1) \div stride, height)

\* the length of row r (0-based) of data.chunks(stride)
row_len(size, stride, r) == Min(stride, size - r * stride)

\* mutant: no end marker
encode_finish_no_marker(es) == es

\* encode_impl, after the loop: the end marker and the number of bytes
\* written after the header
encode_finish(es) ==
    LET buf == write_many(es.buf, QOI_PADDING)
    IN  [es EXCEPT !.buf = buf]

n_written(es) == saturating_sub(es.cap, capacity(es.buf))

(***************************************************************************)
(* decode: the slice decoder.                                              *)
(***************************************************************************)
\* QoiDecoder::new
QoiDecoder_new(data) ==
    LET header == Header_decode(data)
    IN  IF ~header.ok THEN header
        ELSE Ok([data |-> Drop(data, QOI_HEADER_SIZE), header |-> header.val,
                 channels |-> header.val.channels])

\* QoiDecoder::with_channels
with_channels(dec, channels) == [dec EXCEPT !.channels = channels]

\* mutant: the pixel register starts with alpha 0
decode_init_zero_alpha(data, out, N) ==
    [data |-> data,
     data_len |-> Len(data),
     index |-> [k \in 0..255 |-> Pixel_new(N)],
     px |-> Pixel_new(N),
     out |-> out,
     pos |-> 0,
     slots |-> Len(out) \div N,
     err |-> None]

\* qoi_decode_impl_slice, before the loop.  out is the output buffer (its
\* bytes), seen as Len(out) \div N pixel slots; pos is the number of slots
\* already taken off the front of pixels.
decode_init(data, out, N) ==
    [data |-> data,
     data_len |-> Len(data),
     index |-> [k \in 0..(IndexLen - 1) |-> Pixel_new(N)],
     px |-> with_a(Pixel_new(N), 255),
     out |-> out,
     pos |-> 0,
     slots |-> Len(out) \div N,
     err |-> None]

\* *px_out = px.into(): the N bytes of slot pos (0-based)
put_pixel(out, pos, px) ==
    [k \in 1..Len(out) |->
        IF k > pos * Len(px) /\ k <= (pos + 1) * Len(px)
        THEN px[k - pos * Len(px)] ELSE out[k]]

\* mutant: a RUN writes its first pixel only
fill_pixels_one(out, pos, count, px) ==
    [k \in 1..Len(out) |->
        IF k > pos * Len(px) /\ k <= (pos + 1) * Len(px)
        THEN px[((k - 1) % Len(px)) + 1] ELSE out[k]]

\* phead.fill(px): slots pos .. pos + count - 1
fill_pixels(out, pos, count, px) ==
    [k \in 1..Len(out) |->
        IF k > pos * Len(px) /\ k <= (pos + count) * Len(px)
        THEN px[((k - 1) % Len(px)) + 1] ELSE out[k]]

\* the slot of the index table a decoded pixel is stored in
decode_slot(px) == hash_index(px)

\* mutant: the decoded pixel is not stored in the index
decode_store_no_index(ds, px, data) ==
    [ds EXCEPT !.px = px, !.data = data,
               !.out = put_pixel(@, ds.pos, px),
               !.pos = @ + 1]

\* the tail of one turn of the loop, after an opcode that sets px
decode_store(ds, px, data) ==
    [ds EXCEPT !.px = px, !.data = data,
               !.index = [@ EXCEPT ![decode_slot(px)] = px],
               !.out = put_pixel(@, ds.pos, px),
               !.pos = @ + 1]

\* qoi_decode_impl_slice, one turn of the loop (a slot is left to fill)
decode_op(ds, RGBA) ==
    LET data == ds.data
        len == Len(data)
        b1 == data[1]
    IN  IF len >= 1 /\ b1 >= QOI_OP_INDEX /\ b1 <= QOI_OP_INDEX_END
        THEN LET px == ds.index[b1]
             IN  [ds EXCEPT !.px = px, !.data = Drop(data, 1),
                            !.out = put_pixel(@, ds.pos, px), !.pos = @ + 1]
        ELSE IF len >= 4 /\ b1 = QOI_OP_RGB
        THEN decode_store(ds, update_rgb(ds.px, data[2], data[3], data[4]),
                          Drop(data, 4))
        ELSE IF len >= 5 /\ b1 = QOI_OP_RGBA /\ RGBA
        THEN decode_store(ds,
                 update_rgba(ds.px, data[2], data[3], data[4], data[5]),
                 Drop(data, 5))
        ELSE IF len >= 1 /\ b1 >= QOI_OP_RUN /\ b1 <= QOI_OP_RUN_END
        THEN LET run == Min(BitAnd(b1, 63), ds.slots - (ds.pos + 1))
             IN  [ds EXCEPT !.data = Drop(data, 1),
                            !.out = fill_pixels(@, ds.pos, 1 + run, ds.px),
                            !.pos = @ + 1 + run]
        ELSE IF len >= 1 /\ b1 >= QOI_OP_DIFF /\ b1 <= QOI_OP_DIFF_END
        THEN decode_store(ds, update_diff(ds.px, b1), Drop(data, 1))
        ELSE IF len >= 2 /\ b1 >= QOI_OP_LUMA /\ b1 <= QOI_OP_LUMA_END
        THEN decode_store(ds, update_luma(ds.px, b1, data[2]), Drop(data, 2))
        ELSE IF len < QOI_PADDING_SIZE
        THEN [ds EXCEPT !.err = Some([kind |-> "UnexpectedBufferEnd"])]
        ELSE decode_store(ds, ds.px, data)

\* mutant: the 8 bytes are counted but not compared
decode_finish_no_compare(ds) ==
    IF Len(ds.data) < QOI_PADDING_SIZE
    THEN Err([kind |-> "UnexpectedBufferEnd"])
    ELSE Ok(saturating_sub(saturating_sub(ds.data_len, Len(ds.data)),
                           QOI_PADDING_SIZE))

\* qoi_decode_impl_slice, after the loop: the end marker
decode_finish(ds) ==
    IF Len(ds.data) < QOI_PADDING_SIZE
    THEN Err([kind |-> "UnexpectedBufferEnd"])
    ELSE IF Take(ds.data, QOI_PADDING_SIZE) # QOI_PADDING
    THEN Err([kind |-> "InvalidPadding"])
    ELSE Ok(saturating_sub(saturating_sub(ds.data_len, Len(ds.data)),
                           QOI_PADDING_SIZE))

\* qoi_decode_impl_slice_all: the const parameters of the instance chosen
\* for (requested channels, header channels)
decode_N(channels, src_channels) == channels
decode_RGBA(channels, src_channels) == src_channels = 4

\* cast_slice_mut::<_, [u8; N]>(out) panics when the bytes of out do not
\* fill a whole number of N-byte slots
cast_slice_mut_panics(out, N) == Len(out) % N # 0

(***************************************************************************)
(* decode: the stream decoder.  The reader is the bytes it has not read.   *)
(***************************************************************************)
\* Read::read_exact on a reader over bytes: n bytes or an i/o error
read_exact(reader, n) ==
    IF Len(reader) < n THEN Err([kind |-> "IoError"])
    ELSE Ok([p |-> Take(reader, n), reader |-> Drop(reader, n)])

\* QoiStreamDecoder::new
QoiStreamDecoder_new(reader) ==
    LET b == read_exact(reader, QOI_HEADER_SIZE)
    IN  IF ~b.ok THEN b
        ELSE LET header == Header_decode(b.val.p)
             IN  IF ~header.ok THEN header
                 ELSE Ok([data |-> b.val.reader, header |-> header.val,
                          channels |-> header.val.channels])

\* read_exact(..)?: the i/o error e ends the decoding
stream_fail(ds, e) == [ds EXCEPT !.err = Some(e.err)]

\* qoi_decode_impl_stream, one turn of the loop (a slot is left to fill)
stream_decode_op(ds, RGBA) ==
    LET first == read_exact(ds.data, 1)
    IN  IF ~first.ok THEN stream_fail(ds, first)
        ELSE
        LET b1 == first.val.p[1]
            data == first.val.reader
            p3 == read_exact(data, 3)
            p4 == read_exact(data, 4)
            p1 == read_exact(data, 1)
        IN  IF b1 >= QOI_OP_INDEX /\ b1 <= QOI_OP_INDEX_END
            THEN LET px == ds.index[b1]
                 IN  [ds EXCEPT !.px = px, !.data = data,
                                !.out = put_pixel(@, ds.pos, px),
                                !.pos = @ + 1]
            ELSE IF b1 = QOI_OP_RGB
            THEN IF ~p3.ok THEN stream_fail(ds, p3)
                 ELSE decode_store(ds,
                          update_rgb(ds.px, p3.val.p[1], p3.val.p[2],
                                     p3.val.p[3]),
                          p3.val.reader)
            ELSE IF b1 = QOI_OP_RGBA /\ RGBA
            THEN IF ~p4.ok THEN stream_fail(ds, p4)
                 ELSE decode_store(ds,
                          update_rgba(ds.px, p4.val.p[1], p4.val.p[2],
                                      p4.val.p[3], p4.val.p[4]),
                          p4.val.reader)
            ELSE IF b1 >= QOI_OP_RUN /\ b1 <= QOI_OP_RUN_END
            THEN LET run == Min(BitAnd(b1, 63), ds.slots - (ds.pos + 1))
                 IN  [ds EXCEPT !.data = data,
                                !.out = fill_pixels(@, ds.pos, 1 + run, ds.px),
                                !.pos = @ + 1 + run]
            ELSE IF b1 >= QOI_OP_DIFF /\ b1 <= QOI_OP_DIFF_END
            THEN decode_store(ds, update_diff(ds.px, b1), data)
            ELSE IF b1 >= QOI_OP_LUMA /\ b1 <= QOI_OP_LUMA_END
            THEN IF ~p1.ok THEN stream_fail(ds, p1)
                 ELSE decode_store(ds, update_luma(ds.px, b1, p1.val.p[1]),
                                   p1.val.reader)
            ELSE decode_store(ds, ds.px, data)

\* mutant: the end marker must be the last bytes of the reader
stream_decode_finish_to_end(ds) ==
    LET p == read_exact(ds.data, QOI_PADDING_SIZE)
    IN  IF ~p.ok THEN p
        ELSE IF p.val.p # QOI_PADDING \/ p.val.reader # <<>>
        THEN Err([kind |-> "InvalidPadding"])
        ELSE Ok(p.val.reader)

\* qoi_decode_impl_stream, after the loop: the end marker
stream_decode_finish(ds) ==
    LET p == read_exact(ds.data, QOI_PADDING_SIZE)
    IN  IF ~p.ok THEN p
        ELSE IF p.val.p # QOI_PADDING THEN Err([kind |-> "InvalidPadding"])
        ELSE Ok(p.val.reader)

(***************************************************************************)
(* The state: one encode_to_vec / encode_to_buf call followed by one       *)
(* decode of its output.                                                   *)
(***************************************************************************)
VARIABLES
    input,      \* the builder's arguments and the length of the output buffer
    reference,  \* whether the build has the "reference" feature
    pc,         \* where the run is
    encoder,    \* the result of EncoderBuilder::build
    es,         \* the locals of encode_impl
    encoded,    \* the result of the encoding: the bytes, an error or a panic
    tamper,     \* what was done to the bytes before they are decoded
    qoi,        \* the bytes handed to the decoder
    decoder,    \* the result of QoiDecoder::new
    ds,         \* the locals of qoi_decode_impl_slice
    decoded,    \* the result of the decoding
    hdr         \* a run of the header codec alone: arguments and results

vars == <<input, reference, pc, encoder, es, encoded, tamper, qoi, decoder,
          ds, decoded, hdr>>

Panic == Err([kind |-> "panic"])
NotYet == Err([kind |-> "not yet"])

Zeros(n) == [k \in 1..n |-> 0]

RECURSIVE Flatten(_)
Flatten(pxs) == IF pxs = <<>> THEN <<>> ELSE Head(pxs) \o Flatten(Tail(pxs))

Rep(px, n) == [k \in 1..n |-> px]

\* the pixels the images are drawn from: the initial previous pixel, the
\* initial content of the index, a DIFF, a LUMA and an RGBA step away from
\* it, a pixel that shares its index slot, and a LUMA step that wraps
Palette4 ==
    {<<0, 0, 0, 255>>, <<0, 0, 0, 0>>, <<1, 255, 0, 255>>, <<10, 12, 9, 255>>,
     <<10, 20, 30, 128>>, <<64, 0, 0, 255>>}

Palette3 ==
    {<<0, 0, 0>>, <<1, 255, 0>>, <<10, 12, 9>>, <<64, 0, 0>>, <<254, 254, 254>>}

Palette(C) == IF C = 3 THEN Palette3 ELSE Palette4

\* the pixels of the long runs and of the tampered images
SmallPalette(C) ==
    IF C = 3 THEN {<<0, 0, 0>>, <<64, 0, 0>>}
    ELSE {<<0, 0, 0, 255>>, <<10, 20, 30, 128>>}

\* images of up to MaxPixels pixels, each folded into every height that
\* divides it
ShortImages(pal) ==
    { [pixels |-> pxs, height |-> hh] :
        pxs \in UNION { [1..n -> pal] : n \in 1..MaxPixels },
        hh \in 1..MaxHeight }

\* the longest run one RUN opcode holds
RunMax == 62

\* one row holding a run of RunMax or RunMax + 1 equal pixels, after and
\* before at most one other pixel
LongImages(pal) ==
    { [pixels |-> hd \o Rep(px, k) \o tl, height |-> 1] :
        hd \in {<<>>} \cup { <<q>> : q \in pal },
        px \in pal,
        k \in {RunMax, RunMax + 1},
        tl \in {<<>>} \cup { <<q>> : q \in pal } }

\* the arguments of encode_to_vec(data, width, height) for an image
Input(im) ==
    [data |-> Flatten(im.pixels),
     width |-> Len(im.pixels) \div im.height,
     height |-> im.height,
     stride |-> None,
     source_channels |-> None,
     colorspace |-> None,
     out_len |-> None]

Inputs(images) ==
    { Input(im) : im \in { x \in images : Len(x.pixels) % x.height = 0 } }

NoTamper == [kind |-> "none", k |-> 0]

\* nothing has run yet
Idle ==
    /\ encoder = NotYet
    /\ es = encode_init(4, BytesMut_new(0))
    /\ encoded = NotYet
    /\ tamper = NoTamper
    /\ qoi = <<>>
    /\ decoder = NotYet
    /\ ds = decode_init(<<>>, <<>>, 4)
    /\ decoded = NotYet

NoHeaderRun == [args |-> <<>>, made |-> NotYet, data |-> <<>>, res |-> NotYet]

InitRest ==
    /\ reference \in BOOLEAN
    /\ pc = "build"
    /\ Idle
    /\ hdr = NoHeaderRun

Init ==
    /\ input \in Inputs(ShortImages(Palette3) \cup ShortImages(Palette4)
                        \cup LongImages(SmallPalette(3))
                        \cup LongImages(SmallPalette(4)))
    /\ InitRest

(***************************************************************************)
(* Encoder::new, then Encoder::encode_to_vec (or encode_to_buf)            *)
(***************************************************************************)
\* Encoder::new / EncoderBuilder::build
Build ==
    /\ pc = "build"
    /\ encoder' = EncoderBuilder_build(input)
    /\ IF encoder'.ok
       THEN pc' = "encode" /\ encoded' = encoded
       ELSE pc' = "done" /\ encoded' = encoder'
    /\ UNCHANGED <<input, reference, es, tamper, qoi, decoder, ds, decoded, hdr>>

\* the length of the buffer encode_to_buf is given: encode_to_vec allocates
\* required_buf_len() bytes
buffer_len(enc) ==
    IF input.out_len.some THEN input.out_len.v ELSE required_buf_len(enc)

\* encode_to_buf up to the loop of encode_impl: the size check, the header
\* copied into the head of the buffer, the writer over its tail
EncodeBegin ==
    /\ pc = "encode"
    /\ LET enc == encoder.val
           len == buffer_len(enc)
           size_required == required_buf_len(enc)
       IN  IF len < size_required
           THEN /\ encoded' = Err([kind |-> "OutputBufferTooSmall",
                                   size |-> len, required |-> size_required])
                /\ pc' = "done"
                /\ es' = es
           ELSE /\ encoded' = encoded
                /\ pc' = "encode_loop"
                /\ es' = encode_init(encode_N(enc.source_channels),
                                     BytesMut_new(len - QOI_HEADER_SIZE))
    /\ UNCHANGED <<input, reference, encoder, tamper, qoi, decoder, ds, decoded, hdr>>

\* whether the loops of encode_impl have come to their end
encode_loop_done(enc, e) ==
    e.i \div enc.header.width
        >= rows_visited(Len(enc.data), enc.stride, enc.header.height)

\* one pixel of encode_impl; a row shorter than width * R makes the slice
\* &row[..width * R] panic
EncodePixel ==
    /\ pc = "encode_loop"
    /\ ~es.buf.panic
    /\ ~encode_loop_done(encoder.val, es)
    /\ LET enc == encoder.val
           width == enc.header.width
           R == encode_R(enc.source_channels)
           r == es.i \div width
           c == es.i % width
           at == r * enc.stride + c * R
       IN  IF row_len(Len(enc.data), enc.stride, r) < width * R
           THEN /\ encoded' = Panic
                /\ pc' = "done"
                /\ es' = es
           ELSE /\ es' = encode_pixel(es, enc.source_channels,
                                      SubSeq(enc.data, at + 1, at + R),
                                      width * enc.header.height, reference)
                /\ pc' = pc
                /\ encoded' = encoded
    /\ UNCHANGED <<input, reference, encoder, tamper, qoi, decoder, ds, decoded, hdr>>

\* the rest of encode_impl and of encode_to_buf / encode_to_vec: the end
\* marker, the count of bytes written, the vector truncated to it
EncodeEnd ==
    /\ pc = "encode_loop"
    /\ es.buf.panic \/ encode_loop_done(encoder.val, es)
    /\ es' = encode_finish(es)
    /\ IF es'.buf.panic
       THEN /\ encoded' = Panic
            /\ qoi' = qoi
            /\ pc' = "done"
       ELSE /\ encoded' = Ok([bytes |-> Header_encode(encoder.val.header)
                                          \o es'.buf.bytes,
                              size |-> QOI_HEADER_SIZE + n_written(es')])
            /\ qoi' = encoded'.val.bytes
            /\ pc' = "decoder_new"
    /\ UNCHANGED <<input, reference, encoder, tamper, decoder, ds, decoded, hdr>>

(***************************************************************************)
(* What may happen to the bytes between the encoder and the decoder.       *)
(***************************************************************************)
\* the last k bytes are lost
Truncate ==
    /\ pc = "decoder_new"
    /\ tamper = NoTamper
    /\ \E k \in 1..MaxCut :
        /\ k <= Len(qoi)
        /\ qoi' = Take(qoi, Len(qoi) - k)
        /\ tamper' = [kind |-> "cut", k |-> k]
    /\ UNCHANGED <<input, reference, pc, encoder, es, encoded, decoder, ds,
                   decoded, hdr>>

\* one of the last QOI_PADDING_SIZE bytes is changed
Flip ==
    /\ pc = "decoder_new"
    /\ tamper = NoTamper
    /\ \E k \in 1..QOI_PADDING_SIZE, d \in {1, 255} :
        /\ Len(qoi) >= QOI_PADDING_SIZE
        /\ qoi' = [qoi EXCEPT ![Len(qoi) - QOI_PADDING_SIZE + k] =
                                wrapping_add(@, d)]
        /\ tamper' = [kind |-> "flip", k |-> k]
    /\ UNCHANGED <<input, reference, pc, encoder, es, encoded, decoder, ds,
                   decoded, hdr>>

(***************************************************************************)
(* QoiDecoder::new, with_channels, decode_to_vec                           *)
(***************************************************************************)
\* QoiDecoder::new(&qoi), then with_channels(channels)
DecoderNew ==
    /\ pc = "decoder_new"
    /\ \E channels \in {3, 4} :
        LET d == QoiDecoder_new(qoi)
        IN  IF d.ok
            THEN /\ decoder' = Ok(with_channels(d.val, channels))
                 /\ decoded' = decoded
                 /\ pc' = "decode"
            ELSE /\ decoder' = d
                 /\ decoded' = d
                 /\ pc' = "done"
    /\ UNCHANGED <<input, reference, encoder, es, encoded, tamper, qoi, ds, hdr>>

\* decode_to_vec up to the loop of qoi_decode_impl_slice: the vector of
\* n_pixels * channels zeros, the size check of decode_to_buf, the choice of
\* the instance
DecodeBegin ==
    /\ pc = "decode"
    /\ LET dec == decoder.val
           size == n_pixels(dec.header) * dec.channels
           out == Zeros(size)
       IN  IF Len(out) < size
           THEN /\ decoded' = Err([kind |-> "OutputBufferTooSmall",
                                   size |-> Len(out), required |-> size])
                /\ pc' = "done"
                /\ ds' = ds
           ELSE /\ decoded' = decoded
                /\ pc' = "decode_loop"
                /\ ds' = decode_init(dec.data, out,
                                     decode_N(dec.channels, dec.header.channels))
    /\ UNCHANGED <<input, reference, encoder, es, encoded, tamper, qoi, decoder,
                   hdr>>

\* one turn of the loop of qoi_decode_impl_slice
DecodeOp ==
    /\ pc = "decode_loop"
    /\ ds.pos < ds.slots
    /\ ~ds.err.some
    /\ ds' = decode_op(ds, decode_RGBA(decoder.val.channels,
                                       decoder.val.header.channels))
    /\ UNCHANGED <<input, reference, pc, encoder, es, encoded, tamper, qoi,
                   decoder, decoded, hdr>>

\* the rest of qoi_decode_impl_slice and of decode_to_buf / decode_to_vec:
\* the end marker, the cursor moved by the count returned, the vector
DecodeEnd ==
    /\ pc = "decode_loop"
    /\ ds.pos >= ds.slots \/ ds.err.some
    /\ LET n_read == IF ds.err.some THEN Err(ds.err.v) ELSE decode_finish(ds)
       IN  IF ~n_read.ok
           THEN /\ decoded' = n_read
                /\ decoder' = decoder
           ELSE IF n_read.val > Len(decoder.val.data)
           THEN /\ decoded' = Panic
                /\ decoder' = decoder
           ELSE /\ decoded' = Ok([header |-> decoder.val.header,
                                  pixels |-> ds.out,
                                  size |-> n_pixels(decoder.val.header)
                                              * decoder.val.channels])
                /\ decoder' = Ok([decoder.val EXCEPT
                                     !.data = Drop(@, n_read.val)])
    /\ pc' = "done"
    /\ UNCHANGED <<input, reference, encoder, es, encoded, tamper, qoi, ds, hdr>>

Next ==
    \/ Build
    \/ EncodeBegin
    \/ EncodePixel
    \/ EncodeEnd
    \/ DecoderNew
    \/ DecodeBegin
    \/ DecodeOp
    \/ DecodeEnd

Spec == Init /\ [][Next]_vars

(***************************************************************************)
(* The same run with the encoding damaged on its way to the decoder, over  *)
(* the images of the small palette.                                        *)
(***************************************************************************)
InitTamper ==
    /\ input \in Inputs(ShortImages(SmallPalette(3))
                        \cup ShortImages(SmallPalette(4)))
    /\ InitRest

NextTamper == Next \/ Truncate \/ Flip

SpecTamper == InitTamper /\ [][NextTamper]_vars

(***************************************************************************)
(* The header codec alone: Header::try_new and Header::encode on header    *)
(* fields, Header::decode on bytes.                                        *)
(***************************************************************************)
\* widths and heights around the limits; the largest is the largest the
\* checker's integers hold
Dimensions == {0, 1, 2, 20000, 20001, 400000000, 2147483647}

MagicBytes ==
    {<<113, 111, 105, 102>>, <<113, 111, 105, 103>>, <<81, 111, 105, 102>>,
     <<0, 0, 0, 0>>}

\* byte strings given to Header::decode: a header-shaped string, cut short
\* or followed by more bytes
HeaderInputs ==
    { Take(m \o to_be_bytes(ww) \o to_be_bytes(hh) \o <<ch, cs>> \o <<7, 7>>, n) :
        m \in MagicBytes, ww \in Dimensions, hh \in Dimensions,
        ch \in {0, 3, 4, 5, 255}, cs \in {0, 1, 2, 255},
        n \in {0, QOI_HEADER_SIZE - 1, QOI_HEADER_SIZE, QOI_HEADER_SIZE + 2} }

HeaderArgs ==
    { <<ww, hh, ch, cs>> :
        ww \in Dimensions, hh \in Dimensions, ch \in {3, 4}, cs \in {0, 1} }

InitHeader ==
    /\ reference = FALSE
    /\ input = Input([pixels |-> <<>>, height |-> 1])
    /\ Idle
    /\ \/ /\ pc = "hdr_new"
          /\ hdr \in { [NoHeaderRun EXCEPT !.args = a] : a \in HeaderArgs }
       \/ /\ pc = "hdr_decode"
          /\ hdr \in { [NoHeaderRun EXCEPT !.data = d] : d \in HeaderInputs }

\* Header::try_new
HeaderTryNew ==
    /\ pc = "hdr_new"
    /\ hdr' = [hdr EXCEPT !.made =
                  Header_try_new(hdr.args[1], hdr.args[2], hdr.args[3],
                                 hdr.args[4])]
    /\ pc' = IF hdr'.made.ok THEN "hdr_encode" ELSE "hdr_done"
    /\ UNCHANGED <<input, reference, encoder, es, encoded, tamper, qoi,
                   decoder, ds, decoded>>

\* Header::encode
HeaderEncode ==
    /\ pc = "hdr_encode"
    /\ hdr' = [hdr EXCEPT !.data = Header_encode(hdr.made.val)]
    /\ pc' = "hdr_decode"
    /\ UNCHANGED <<input, reference, encoder, es, encoded, tamper, qoi,
                   decoder, ds, decoded>>

\* Header::decode
HeaderDecode ==
    /\ pc = "hdr_decode"
    /\ hdr' = [hdr EXCEPT !.res = Header_decode(hdr.data)]
    /\ pc' = "hdr_done"
    /\ UNCHANGED <<input, reference, encoder, es, encoded, tamper, qoi,
                   decoder, ds, decoded>>

NextHeader == HeaderTryNew \/ HeaderEncode \/ HeaderDecode

SpecHeader == InitHeader /\ [][NextHeader]_vars

(***************************************************************************)
(* Pixel::hash_index alone, on pixels of 3 and of 4 channels.              *)
(***************************************************************************)
\* channel values whose products with 3, 5, 7 and 11 stay below 256, pass
\* it once and pass it several times
HashBytes == {0, 1, 2, 52, 86, 128, 200, 255}

HashPixels == [1..3 -> HashBytes] \cup [1..4 -> HashBytes]

InitHash ==
    /\ reference = FALSE
    /\ input = Input([pixels |-> <<>>, height |-> 1])
    /\ Idle
    /\ pc = "hash"
    /\ hdr \in { [NoHeaderRun EXCEPT !.args = px] : px \in HashPixels }

\* Pixel::hash_index of the pixel
PixelHashIndex ==
    /\ pc = "hash"
    /\ hdr' = [hdr EXCEPT !.res = Ok(hash_index(hdr.args))]
    /\ pc' = "hash_done"
    /\ UNCHANGED <<input, reference, encoder, es, encoded, tamper, qoi,
                   decoder, ds, decoded>>

NextHash == PixelHashIndex

SpecHash == InitHash /\ [][NextHash]_vars

(***************************************************************************)
(* The scenarios: the images and the hand-written streams of the tests,    *)
(* decoded by the slice decoder and by the stream decoder, into a vector   *)
(* or into a buffer of the caller.                                         *)
(***************************************************************************)
\* the images of the scenarios S1..S4 and images that start with the
\* initial content of the index
ScenarioImages ==
    { [pixels |-> pxs, height |-> 1] :
        pxs \in {<<<<0, 0, 0, 255>>>>,
                 <<<<0, 0, 0, 255>>, <<0, 0, 0, 255>>, <<10, 20, 30, 255>>>>,
                 <<<<0, 0, 0, 255>>, <<0, 0, 0, 255>>, <<10, 20, 30, 255>>,
                   <<0, 0, 0, 255>>>>,
                 <<<<254, 254, 254>>, <<1, 1, 1>>>>,
                 <<<<0, 0, 0, 0>>>>,
                 <<<<0, 0, 0, 0>>, <<10, 20, 30, 255>>, <<0, 0, 0, 0>>>>,
                 <<<<0, 0, 0>>, <<10, 20, 30>>, <<0, 0, 0>>>>} }

\* header.encode() of a w x 1 image, the opcodes, [0; 7] and 1
Stream(w, channels, colorspace, ops) ==
    Header_encode([width |-> w, height |-> 1, channels |-> channels,
                   colorspace |-> colorspace])
        \o ops \o QOI_PADDING

\* the streams of test_start_with_qoi_op_run,
\* test_start_with_qoi_op_run_and_use_index and ONE_PIXEL_QOI_IMAGE, and
\* streams where the RUN follows an opcode that stored its pixel
ScenarioStreams ==
    {Stream(3, 4, 1, <<BitOr(QOI_OP_RUN, 1), QOI_OP_RGB, 10, 20, 30>>),
     Stream(4, 4, 1, <<BitOr(QOI_OP_RUN, 1), QOI_OP_RGB, 10, 20, 30,
                       BitOr(QOI_OP_INDEX, 53)>>),
     Stream(1, 4, 0, <<85>>),
     Stream(4, 4, 1, <<QOI_OP_RGB, 1, 2, 3, BitOr(QOI_OP_RUN, 0),
                       QOI_OP_RGB, 10, 20, 30, BitOr(QOI_OP_INDEX, 13)>>),
     Stream(4, 3, 0, <<QOI_OP_RGB, 1, 2, 3, BitOr(QOI_OP_RUN, 0),
                       QOI_OP_RGB, 10, 20, 30, BitOr(QOI_OP_INDEX, 13)>>)}

InitScenario ==
    /\ hdr = NoHeaderRun
    /\ \/ /\ input \in Inputs(ScenarioImages)
          /\ reference \in BOOLEAN
          /\ pc = "build"
          /\ Idle
       \/ /\ input = Input([pixels |-> <<>>, height |-> 1])
          /\ reference = FALSE
          /\ pc = "decoder_new"
          /\ encoder = NotYet
          /\ es = encode_init(4, BytesMut_new(0))
          /\ encoded = NotYet
          /\ tamper = NoTamper
          /\ qoi \in ScenarioStreams
          /\ decoder = NotYet
          /\ ds = decode_init(<<>>, <<>>, 4)
          /\ decoded = NotYet

\* a buffer of the caller: len bytes, none of them a byte the decoders of
\* the scenarios write
Buffer(len) == [k \in 1..len |-> 170]

\* the buffer lengths tried for an image of size bytes: one byte short,
\* exact, one pixel more, 16 bytes more
BufferLens(size, N) == {size - 1, size, size + N, size + 16} \cap Nat

\* QoiDecoder::decode_to_buf up to the loop of qoi_decode_impl_slice: the
\* size check, the choice of the instance, the cast of the whole buffer
DecodeToBuf ==
    /\ pc = "decode"
    /\ LET dec == decoder.val
           size == n_pixels(dec.header) * dec.channels
           N == decode_N(dec.channels, dec.header.channels)
       IN  \E len \in BufferLens(size, N) :
              IF len < size
              THEN /\ decoded' = Err([kind |-> "OutputBufferTooSmall",
                                      size |-> len, required |-> size])
                   /\ pc' = "done"
                   /\ ds' = [ds EXCEPT !.out = Buffer(len)]
              ELSE IF cast_slice_mut_panics(Buffer(len), N)
              THEN /\ decoded' = Panic
                   /\ pc' = "done"
                   /\ ds' = [ds EXCEPT !.out = Buffer(len)]
              ELSE /\ decoded' = decoded
                   /\ pc' = "decode_loop"
                   /\ ds' = decode_init(dec.data, Buffer(len), N)
    /\ UNCHANGED <<input, reference, encoder, es, encoded, tamper, qoi, decoder,
                   hdr>>

\* QoiStreamDecoder::new(reader over qoi), then with_channels(channels)
StreamDecoderNew ==
    /\ pc = "decoder_new"
    /\ \E channels \in {3, 4} :
        LET d == QoiStreamDecoder_new(qoi)
        IN  IF d.ok
            THEN /\ decoder' = Ok(with_channels(d.val, channels))
                 /\ decoded' = decoded
                 /\ pc' = "stream_decode"
            ELSE /\ decoder' = d
                 /\ decoded' = d
                 /\ pc' = "done"
    /\ UNCHANGED <<input, reference, encoder, es, encoded, tamper, qoi, ds, hdr>>

\* QoiStreamDecoder::decode_to_vec (the vector of n_pixels * channels zeros)
\* or decode_to_buf (a buffer of the caller), up to the loop of
\* qoi_decode_impl_stream
StreamDecodeBegin ==
    /\ pc = "stream_decode"
    /\ LET dec == decoder.val
           size == n_pixels(dec.header) * dec.channels
           N == decode_N(dec.channels, dec.header.channels)
       IN  \E out \in {Zeros(size)}
                      \cup { Buffer(len) : len \in BufferLens(size, N) } :
              IF Len(out) < size
              THEN /\ decoded' = Err([kind |-> "OutputBufferTooSmall",
                                      size |-> Len(out), required |-> size])
                   /\ pc' = "done"
                   /\ ds' = [ds EXCEPT !.out = out]
              ELSE IF cast_slice_mut_panics(out, N)
              THEN /\ decoded' = Panic
                   /\ pc' = "done"
                   /\ ds' = [ds EXCEPT !.out = out]
              ELSE /\ decoded' = decoded
                   /\ pc' = "stream_decode_loop"
                   /\ ds' = decode_init(dec.data, out, N)
    /\ UNCHANGED <<input, reference, encoder, es, encoded, tamper, qoi, decoder,
                   hdr>>

\* one turn of the loop of qoi_decode_impl_stream
StreamDecodeOp ==
    /\ pc = "stream_decode_loop"
    /\ ds.pos < ds.slots
    /\ ~ds.err.some
    /\ ds' = stream_decode_op(ds, decode_RGBA(decoder.val.channels,
                                              decoder.val.header.channels))
    /\ UNCHANGED <<input, reference, pc, encoder, es, encoded, tamper, qoi,
                   decoder, decoded, hdr>>

\* the rest of qoi_decode_impl_stream and of decode_to_buf / decode_to_vec
StreamDecodeEnd ==
    /\ pc = "stream_decode_loop"
    /\ ds.pos >= ds.slots \/ ds.err.some
    /\ LET rest == IF ds.err.some THEN Err(ds.err.v)
                   ELSE stream_decode_finish(ds)
       IN  IF ~rest.ok
           THEN /\ decoded' = rest
                /\ decoder' = decoder
           ELSE /\ decoded' = Ok([header |-> decoder.val.header,
                                  pixels |-> ds.out,
                                  size |-> n_pixels(decoder.val.header)
                                              * decoder.val.channels])
                /\ decoder' = Ok([decoder.val EXCEPT !.data = rest.val])
    /\ pc' = "done"
    /\ UNCHANGED <<input, reference, encoder, es, encoded, tamper, qoi, ds, hdr>>

NextScenario ==
    \/ Next
    \/ DecodeToBuf
    \/ StreamDecoderNew
    \/ StreamDecodeBegin
    \/ StreamDecodeOp
    \/ StreamDecodeEnd

SpecScenario == InitScenario /\ [][NextScenario]_vars

(***************************************************************************)
(* The builder: Encoder::new and EncoderBuilder with a stride, a source    *)
(* layout and a buffer of the caller, on data of any length.               *)
(***************************************************************************)
\* the longest data given to Encoder::new without a layout
MaxDataLen == 17

\* data whose bytes differ from place to place
Ramp(len) == [k \in 1..len |-> (k * 37) % 256]

\* Encoder::new(data, width, height) on data of every length
LengthInputs ==
    { [Input([pixels |-> <<>>, height |-> 1]) EXCEPT
          !.data = Ramp(len), !.width = w, !.height = h] :
        len \in 0..MaxDataLen, w \in 0..3, h \in 0..3 }

\* encode_to_buf into a buffer one byte short of, equal to and longer than
\* required_buf_len(), and into an empty one
BufInputs ==
    UNION {
      { [im EXCEPT !.out_len = Some(len)] :
          len \in {0} \cup { encode_max_len(im.width, im.height,
                                 Len(im.data) \div (im.width * im.height)) + d :
                             d \in {-1, 0, 5} } } :
      im \in Inputs(ShortImages(SmallPalette(3))
                    \cup ShortImages(SmallPalette(4))) }

\* source pixels of 4 bytes: two that differ in the last byte only, two in
\* the first only, one that reads the same in both directions
Chunks4 ==
    {<<1, 2, 3, 4>>, <<1, 2, 3, 200>>, <<9, 2, 3, 4>>, <<0, 0, 0, 255>>,
     <<255, 7, 7, 255>>}

Chunks3 == {<<1, 2, 3>>, <<3, 2, 1>>, <<0, 0, 0>>}

Chunks(R) == IF R = 3 THEN Chunks3 ELSE Chunks4

\* EncoderBuilder::new(data, w, 1).source_channels(sc) for every layout,
\* on one or two source pixels
LayoutInputs ==
    { [Input([pixels |-> pxs, height |-> 1]) EXCEPT
          !.source_channels = Some(sc)] :
        sc \in { x \in SourceChannels : bytes_per_pixel(x) = 4 },
        pxs \in UNION { [1..n -> Chunks(4)] : n \in 1..2 } }
    \cup
    { [Input([pixels |-> pxs, height |-> 1]) EXCEPT
          !.source_channels = Some(sc)] :
        sc \in { x \in SourceChannels : bytes_per_pixel(x) = 3 },
        pxs \in UNION { [1..n -> Chunks(3)] : n \in 1..2 } }

\* EncoderBuilder::new(data, w, h).stride(stride).source_channels(sc) with
\* a stride below, equal to and above the bytes of a row, on data one byte
\* short of the last row's pixels, ending with them, of h whole strides and
\* one byte longer
StrideInputsOf(sc, w, h) ==
    LET row == w * bytes_per_pixel(sc)
    IN  UNION {
          { [Input([pixels |-> <<>>, height |-> 1]) EXCEPT
                !.data = Ramp(len), !.width = w, !.height = h,
                !.stride = Some(stride), !.source_channels = Some(sc)] :
              len \in {stride * (h - 1) + row - 1, stride * (h - 1) + row,
                       stride * h, stride * h + 1} } :
          stride \in {row - 1, row, row + 2} }

StrideInputs ==
    UNION { StrideInputsOf(sc, w, h) :
              sc \in {"Rgb", "Rgba", "Xrgb"}, w \in 1..2, h \in 1..2 }

InitBuilder ==
    /\ input \in LengthInputs \cup BufInputs \cup LayoutInputs
                    \cup StrideInputs
    /\ InitRest

SpecBuilder == InitBuilder /\ [][Next]_vars

(***************************************************************************)
(* The decoders alone, on byte strings no encoder wrote: a header, up to   *)
(* two opcodes of any kind, and an end marker that is whole, followed by   *)
(* surplus bytes, cut short or missing.                                    *)
(***************************************************************************)
\* one opcode of each kind with its operands: INDEX, DIFF, LUMA, two RUNs,
\* RGB and RGBA
Opcodes ==
    {<<BitOr(QOI_OP_INDEX, 0)>>, <<85>>, <<163, 136>>,
     <<BitOr(QOI_OP_RUN, 0)>>, <<BitOr(QOI_OP_RUN, 5)>>,
     <<QOI_OP_RGB, 10, 20, 30>>, <<QOI_OP_RGBA, 1, 2, 3, 4>>}

OpStrings == {<<>>} \cup Opcodes \cup { a \o b : a \in Opcodes, b \in Opcodes }

\* what follows the opcodes: the end marker, the end marker and k more
\* bytes, or the end marker less its last k bytes
Tails ==
    {NoTamper} \cup { [kind |-> "surplus", k |-> k] : k \in {1, 3} }
               \cup { [kind |-> "cut", k |-> k] : k \in {1, QOI_PADDING_SIZE} }

Surplus(k) == [j \in 1..k |-> 7]

TailBytes(t) ==
    IF t.kind = "surplus" THEN QOI_PADDING \o Surplus(t.k)
    ELSE Take(QOI_PADDING, QOI_PADDING_SIZE - t.k)

InitDecode ==
    /\ hdr = NoHeaderRun
    /\ input = Input([pixels |-> <<>>, height |-> 1])
    /\ reference = FALSE
    /\ pc = "decoder_new"
    /\ encoder = NotYet
    /\ es = encode_init(4, BytesMut_new(0))
    /\ encoded = NotYet
    /\ tamper \in Tails
    /\ \E w \in 1..2, channels \in {3, 4}, ops \in OpStrings :
          qoi = Header_encode([width |-> w, height |-> 1,
                               channels |-> channels, colorspace |-> 0])
                   \o ops \o TailBytes(tamper)
    /\ decoder = NotYet
    /\ ds = decode_init(<<>>, <<>>, 4)
    /\ decoded = NotYet

NextDecode ==
    \/ DecoderNew
    \/ DecodeBegin
    \/ DecodeToBuf
    \/ DecodeOp
    \/ DecodeEnd
    \/ StreamDecoderNew
    \/ StreamDecodeBegin
    \/ StreamDecodeOp
    \/ StreamDecodeEnd

SpecDecode == InitDecode /\ [][NextDecode]_vars

\* the decoders run on: one call follows the other and every loop takes
\* its next turn
SpecDecodeFair == SpecDecode /\ WF_vars(NextDecode)

(***************************************************************************)
(* Encoder::encode_to_stream into a sink that takes every byte (a vector)  *)
(* or fails after the number of bytes given with the input.                *)
(***************************************************************************)
\* the images with every sink that fails somewhere in the encoding, or
\* nowhere
StreamInputs ==
    UNION { { [im EXCEPT !.out_len = o] :
                o \in {None} \cup
                      { Some(k) : k \in 0..encode_max_len(im.width, im.height,
                                     Len(im.data) \div (im.width * im.height)) } } :
            im \in Inputs(ShortImages(SmallPalette(3))
                          \cup ShortImages(SmallPalette(4))) }

InitStream ==
    /\ input \in StreamInputs
    /\ InitRest

\* encode_to_stream up to the loop of encode_impl: the header written to
\* the sink, the writer over the sink
StreamEncodeBegin ==
    /\ pc = "encode"
    /\ LET enc == encoder.val
           sink == IF input.out_len.some THEN Sink(input.out_len.v)
                   ELSE Sink(USIZE_MAX)
           writer == write_all(sink, Header_encode(enc.header))
       IN  IF writer.failed
           THEN /\ encoded' = Err([kind |-> "IoError"])
                /\ pc' = "done"
                /\ es' = [es EXCEPT !.buf = GenericWriter_new(writer)]
           ELSE /\ encoded' = encoded
                /\ pc' = "stream_encode_loop"
                /\ es' = encode_init(encode_N(enc.source_channels),
                                     GenericWriter_new(writer))
    /\ UNCHANGED <<input, reference, encoder, tamper, qoi, decoder, ds, decoded, hdr>>

\* one pixel of encode_impl over the GenericWriter
StreamEncodePixel ==
    /\ pc = "stream_encode_loop"
    /\ ~es.buf.failed
    /\ ~encode_loop_done(encoder.val, es)
    /\ LET enc == encoder.val
           width == enc.header.width
           R == encode_R(enc.source_channels)
           r == es.i \div width
           c == es.i % width
           at == r * enc.stride + c * R
       IN  IF row_len(Len(enc.data), enc.stride, r) < width * R
           THEN /\ encoded' = Panic
                /\ pc' = "done"
                /\ es' = es
           ELSE /\ es' = encode_pixel(es, enc.source_channels,
                                      SubSeq(enc.data, at + 1, at + R),
                                      width * enc.header.height, reference)
                /\ pc' = pc
                /\ encoded' = encoded
    /\ UNCHANGED <<input, reference, encoder, tamper, qoi, decoder, ds, decoded, hdr>>

\* mutant: the count returned leaves the header out
StreamEncodeEnd_payload_count ==
    /\ pc = "stream_encode_loop"
    /\ es.buf.failed \/ encode_loop_done(encoder.val, es)
    /\ es' = encode_finish(es)
    /\ IF es'.buf.failed
       THEN /\ encoded' = Err([kind |-> "IoError"])
            /\ qoi' = qoi
       ELSE /\ encoded' = Ok([bytes |-> es'.buf.bytes,
                              size |-> n_written(es')])
            /\ qoi' = encoded'.val.bytes
    /\ pc' = "done"
    /\ UNCHANGED <<input, reference, encoder, tamper, decoder, ds, decoded, hdr>>

\* the rest of encode_impl and of encode_to_stream: the error of a write
\* that failed, or the end marker and the count of bytes written
StreamEncodeEnd ==
    /\ pc = "stream_encode_loop"
    /\ es.buf.failed \/ encode_loop_done(encoder.val, es)
    /\ es' = encode_finish(es)
    /\ IF es'.buf.failed
       THEN /\ encoded' = Err([kind |-> "IoError"])
            /\ qoi' = qoi
       ELSE /\ encoded' = Ok([bytes |-> es'.buf.bytes,
                              size |-> n_written(es') + QOI_HEADER_SIZE])
            /\ qoi' = encoded'.val.bytes
    /\ pc' = "done"
    /\ UNCHANGED <<input, reference, encoder, tamper, decoder, ds, decoded, hdr>>

NextStream ==
    \/ Build
    \/ StreamEncodeBegin
    \/ StreamEncodePixel
    \/ StreamEncodeEnd

SpecStream == InitStream /\ [][NextStream]_vars

(***************************************************************************)
(* The properties.                                                         *)
(***************************************************************************)
\* the channel count of the image that was given to the encoder
ImageChannels == Len(input.data) \div (input.width * input.height)

\* the header the decoder is expected to report for the image
ImageHeader ==
    [width |-> input.width, height |-> input.height,
     channels |-> ImageChannels, colorspace |-> 0]

\* the 14 bytes that stand for ImageHeader (the dimensions are below 256)
ImageHeaderBytes ==
    <<113, 111, 105, 102, 0, 0, 0, input.width, 0, 0, 0, input.height,
      ImageChannels, 0>>

EndMarker == <<0, 0, 0, 0, 0, 0, 0, 1>>

IsPanic(r) == ~r.ok /\ r.err.kind = "panic"

\* the channels the decoder was asked for
Requested == decoder.val.channels

\* R,G,B of every RGBA pixel
DropAlpha(data) ==
    [k \in 1..((Len(data) \div 4) * 3) |->
        data[((k - 1) \div 3) * 4 + ((k - 1) % 3) + 1]]

\* R,G,B,255 for every RGB pixel
AddAlpha(data) ==
    [k \in 1..((Len(data) \div 3) * 4) |->
        IF (k - 1) % 4 = 3 THEN 255
        ELSE data[((k - 1) \div 4) * 3 + ((k - 1) % 4) + 1]]

\* C1: every image encodes, in the default and in the reference mode, and
\* decoding the encoding with the image's own channel count succeeds and
\* gives the header of the image and exactly its pixels.
C1_RoundTrip ==
    pc = "done" =>
        /\ encoded.ok
        /\ decoder.ok
        /\ Requested = ImageChannels =>
              /\ decoded.ok
              /\ decoded.val.header = ImageHeader
              /\ decoded.val.pixels = input.data

\* a default-mode round trip of an image holding a run longer than one RUN
C1_Witness ==
    /\ pc = "done"
    /\ ~reference
    /\ decoded.ok
    /\ Requested = ImageChannels
    /\ decoded.val.pixels = input.data
    /\ input.width > RunMax + 1

\* C2: the writer over a buffer of encode_max_len bytes never runs out of
\* room, and an encoding is never longer than 14 + w*h*(C+1) + 8 bytes.
C2_BoundRespected ==
    /\ ~es.buf.panic
    /\ ~IsPanic(encoded)
    /\ encoded.ok =>
          /\ Len(encoded.val.bytes)
                <= 14 + input.width * input.height * (ImageChannels + 1) + 8
          /\ encoded.val.size = Len(encoded.val.bytes)

\* an encoding that fills the bound: one RGBA opcode per pixel
C2_Witness ==
    /\ encoded.ok
    /\ Len(encoded.val.bytes)
          = 14 + input.width * input.height * (ImageChannels + 1) + 8
    /\ input.width * input.height >= 2

C4_DropAlpha ==
    (pc = "done" /\ decoder.ok /\ ImageChannels = 4 /\ Requested = 3) =>
        /\ decoded.ok
        /\ decoded.val.pixels = DropAlpha(input.data)

\* C5: a 3-channel image decoded with 4 requested channels gives R,G,B,255
\* for every pixel.
C5_AddAlpha ==
    (pc = "done" /\ decoder.ok /\ ImageChannels = 3 /\ Requested = 4) =>
        /\ decoded.ok
        /\ decoded.val.header = ImageHeader
        /\ decoded.val.pixels = AddAlpha(input.data)

\* a 3-channel image of several pixels decoded into 4 channels
C5_Witness ==
    /\ pc = "done"
    /\ decoder.ok
    /\ ImageChannels = 3
    /\ Requested = 4
    /\ decoded.ok
    /\ Len(decoded.val.pixels) >= 12

\* the decoder has filled all W*H pixels and come to the end-marker check
AtEndMarker ==
    /\ pc = "done"
    /\ decoder.ok
    /\ ds.slots = input.width * input.height
    /\ ds.pos >= ds.slots
    /\ ~ds.err.some

\* C6: after W*H pixels the slice decoder answers UnexpectedBufferEnd when
\* fewer than 8 bytes are left, InvalidPadding when the next 8 bytes are not
\* the end marker, and Ok only when they are; so for a 1x1 encoding that
\* lost its last 2 bytes and for an encoding whose last byte was changed.
C6_EndMarkerCheck ==
    /\ AtEndMarker =>
          /\ Len(ds.data) < 8 =>
                (~decoded.ok /\ decoded.err.kind = "UnexpectedBufferEnd")
          /\ (Len(ds.data) >= 8 /\ Take(ds.data, 8) # EndMarker) =>
                (~decoded.ok /\ decoded.err.kind = "InvalidPadding")
          /\ decoded.ok <=> (Len(ds.data) >= 8 /\ Take(ds.data, 8) = EndMarker)
    /\ (pc = "done" /\ input.width * input.height = 1
          /\ tamper = [kind |-> "cut", k |-> 2]) =>
          (~decoded.ok /\ decoded.err.kind = "UnexpectedBufferEnd")
    /\ (pc = "done" /\ tamper = [kind |-> "flip", k |-> 8]) =>
          (~decoded.ok /\ decoded.err.kind = "InvalidPadding")

\* the last byte of an encoding was changed and the decoder refused it
C6_Witness ==
    /\ AtEndMarker
    /\ tamper = [kind |-> "flip", k |-> 8]
    /\ ~decoded.ok
    /\ decoded.err.kind = "InvalidPadding"

\* the four bytes b are the big-endian form of x
IsBigEndian(b, x) ==
    /\ Len(b) = 4
    /\ \A k \in 1..4 : b[k] \in Byte
    /\ b[1] * 16777216 + b[2] * 65536 + b[3] * 256 + b[4] = x

\* width * height <= 400,000,000, without forming the product
AreaWithinLimit(width, height) ==
    width = 0 \/ height <= 400000000 \div width

\* C7: a valid header is encoded as 'q','o','i','f', the width and the
\* height as big-endian u32, the channels byte and the colorspace byte, and
\* decoding these 14 bytes gives the header back.
C7_HeaderRoundTrip ==
    /\ (pc # "hdr_new" /\ hdr.args # <<>> /\ hdr.args[1] >= 1
          /\ hdr.args[2] >= 1 /\ AreaWithinLimit(hdr.args[1], hdr.args[2])) =>
          /\ hdr.made.ok
          /\ hdr.made.val = [width |-> hdr.args[1], height |-> hdr.args[2],
                             channels |-> hdr.args[3],
                             colorspace |-> hdr.args[4]]
    /\ (pc \in {"hdr_decode", "hdr_done"} /\ hdr.made.ok) =>
          /\ Len(hdr.data) = 14
          /\ SubSeq(hdr.data, 1, 4) = <<113, 111, 105, 102>>
          /\ IsBigEndian(SubSeq(hdr.data, 5, 8), hdr.args[1])
          /\ IsBigEndian(SubSeq(hdr.data, 9, 12), hdr.args[2])
          /\ hdr.data[13] = hdr.args[3]
          /\ hdr.data[14] = hdr.args[4]
    /\ (pc = "hdr_done" /\ hdr.made.ok) =>
          /\ hdr.res.ok
          /\ hdr.res.val = hdr.made.val

\* the header of the largest image, 400,000,000 x 1, made the round trip
C7_Witness ==
    /\ pc = "hdr_done"
    /\ hdr.made.ok
    /\ hdr.args[1] = 400000000
    /\ hdr.args[4] = 1
    /\ hdr.res.ok
    /\ hdr.res.val = hdr.made.val

\* Header::decode has run on hdr.data
HeaderDecoded == pc = "hdr_done" /\ (hdr.args = <<>> \/ hdr.made.ok)

\* what a 14-byte header must satisfy
ValidHeaderBytes(d) ==
    LET width == d[5] * 16777216 + d[6] * 65536 + d[7] * 256 + d[8]
        height == d[9] * 16777216 + d[10] * 65536 + d[11] * 256 + d[12]
    IN  /\ SubSeq(d, 1, 4) = <<113, 111, 105, 102>>
        /\ width >= 1
        /\ height >= 1
        /\ AreaWithinLimit(width, height)
        /\ d[13] \in {3, 4}
        /\ d[14] \in {0, 1}

\* C8: on at least 14 bytes Header::decode succeeds exactly when the magic,
\* the dimensions, the channels byte and the colorspace byte are valid; on
\* fewer bytes it fails; its answer is the one for the first 14 bytes.
C8_HeaderValidation ==
    HeaderDecoded =>
        /\ Len(hdr.data) < 14 => ~hdr.res.ok
        /\ Len(hdr.data) >= 14 =>
              /\ hdr.res.ok <=> ValidHeaderBytes(hdr.data)
              /\ hdr.res = Header_decode(Take(hdr.data, 14))

\* a valid header followed by more bytes was accepted
C8_Witness ==
    /\ HeaderDecoded
    /\ Len(hdr.data) > 14
    /\ hdr.res.ok
    /\ hdr.res.val.width = 20000
    /\ hdr.res.val.height = 20000

\* C9: on at least 14 bytes that do not start with 'qoif', Header::decode
\* answers InvalidMagic whatever the channels and colorspace bytes are.
C9_InvalidMagicFirst ==
    (HeaderDecoded /\ Len(hdr.data) >= 14
        /\ SubSeq(hdr.data, 1, 4) # <<113, 111, 105, 102>>) =>
        (~hdr.res.ok /\ hdr.res.err.kind = "InvalidMagic")

\* the 1x1 4-channel image whose pixel is (0,0,0,255)
IsScenarioS1 ==
    /\ input.data = <<0, 0, 0, 255>>
    /\ input.width = 1
    /\ input.height = 1

S1Header == <<113, 111, 105, 102, 0, 0, 0, 1, 0, 0, 0, 1, 4, 0>>

\* C10 as stated: the image of S1 is encoded as the header, the byte 0x55
\* and the end marker.
C10_S1_AsStated ==
    (IsScenarioS1 /\ encoded.ok) =>
        encoded.val.bytes = S1Header \o <<85>> \o EndMarker

\* C10, amended: the image of S1 is encoded in 23 bytes, the header, the
\* byte 0xC0 (a RUN of length 1, as the pixel equals the initial previous
\* pixel) and the end marker.
C10_S1_Run ==
    (IsScenarioS1 /\ pc \notin {"build", "encode", "encode_loop"}) =>
        /\ encoded.ok
        /\ Len(encoded.val.bytes) = 23
        /\ encoded.val.bytes = S1Header \o <<192>> \o EndMarker

\* the image of S1 has been encoded
C10_Witness ==
    /\ IsScenarioS1
    /\ encoded.ok
    /\ encoded.val.bytes[15] = 192

\* the encoding is over: what encode_to_vec answered is in encoded
Encoded == pc \notin {"build", "encode", "encode_loop"}

\* the 14 header bytes of a w x 1 image
HeaderBytes(w, channels, colorspace) ==
    <<113, 111, 105, 102, 0, 0, 0, w, 0, 0, 0, 1, channels, colorspace>>

\* a decoder that was asked for the given channels has come to its end with
\* an output of exactly W*H*channels bytes
DecodedExact(channels) ==
    /\ pc = "done"
    /\ decoder.ok
    /\ Requested = channels
    /\ Len(ds.out) = n_pixels(decoder.val.header) * channels

\* a decoder is in its loop, or has left it without an error
Decoding ==
    /\ decoder.ok
    /\ \/ pc \in {"decode_loop", "stream_decode_loop"}
       \/ pc = "done" /\ decoded.ok

\* the 4x1 4-channel image of S3
IsScenarioS3 ==
    /\ input.data = <<0, 0, 0, 255, 0, 0, 0, 255, 10, 20, 30, 255, 0, 0, 0, 255>>
    /\ input.width = 4
    /\ input.height = 1

\* C11 as stated: the image of S3 is encoded as RUN|1, RGB 10 20 30,
\* INDEX|53 between the header and the end marker.
C11_S3_AsStated ==
    (IsScenarioS3 /\ encoded.ok) =>
        encoded.val.bytes
            = HeaderBytes(4, 4, 0) \o <<193, 254, 10, 20, 30, 53>> \o EndMarker

\* C11, amended: the image of S3 is encoded as RUN|1, RGB 10 20 30,
\* RGB 0 0 0: the pixels of a run are not stored in the index, so slot 53
\* still holds (0,0,0,0) when the fourth pixel is looked up, in the default
\* and in the reference mode.
C11_S3_Literal ==
    /\ (IsScenarioS3 /\ Encoded) =>
          /\ encoded.ok
          /\ encoded.val.bytes
                = HeaderBytes(4, 4, 0)
                     \o <<193, 254, 10, 20, 30, 254, 0, 0, 0>> \o EndMarker
    /\ (IsScenarioS3 /\ pc = "encode_loop" /\ es.i <= 3) =>
          es.index[53] = <<0, 0, 0, 0>>

\* the image of S3 has been encoded, with a literal for its fourth pixel
C11_Witness ==
    /\ IsScenarioS3
    /\ encoded.ok
    /\ SubSeq(encoded.val.bytes, 20, 23) = <<254, 0, 0, 0>>
    /\ es.index[53] = <<0, 0, 0, 255>>

\* C12: the slice decoder and the stream decoder decode the 4x1 4-channel
\* stream RUN|1, RGB 10 20 30, INDEX|53 into (0,0,0,255), (0,0,0,255),
\* (10,20,30,255), (0,0,0,255): the INDEX finds the pixel the leading RUN
\* replayed in its slot.
C12_RunThenIndex ==
    (DecodedExact(4) /\ decoder.val.header.width = 4
        /\ Drop(qoi, 14) = <<193, 254, 10, 20, 30, 53>> \o EndMarker) =>
        /\ decoded.ok
        /\ decoded.val.pixels
              = <<0, 0, 0, 255, 0, 0, 0, 255, 10, 20, 30, 255, 0, 0, 0, 255>>

\* a 4-channel image whose first pixel is (0,0,0,0)
StartsTransparent ==
    /\ ImageChannels = 4
    /\ SubSeq(input.data, 1, 4) = <<0, 0, 0, 0>>

\* C13 as stated: a 4-channel image whose first pixel is (0,0,0,0) starts
\* with an INDEX to slot 53.
C13_IndexSeed_AsStated ==
    (StartsTransparent /\ encoded.ok) => encoded.val.bytes[15] = 53

\* C13, amended: the first pixel is encoded against previous = (0,0,0,255)
\* and an index whose slots are all (0,0,0,0); a 4-channel image whose
\* first pixel is (0,0,0,0) starts with an INDEX to slot
\* hash((0,0,0,0)) = 0, not with an RGBA opcode.
C13_IndexSeed ==
    /\ (pc = "encode_loop" /\ es.i = 0) =>
          /\ as_rgba(es.px_prev, 255) = <<0, 0, 0, 255>>
          /\ \A k \in DOMAIN es.index : es.index[k] = <<0, 0, 0, 0>>
          /\ es.buf.bytes = <<>>
    /\ (StartsTransparent /\ pc = "encode_loop" /\ es.i >= 1) =>
          es.buf.bytes[1] = 0
    /\ (StartsTransparent /\ Encoded) =>
          /\ encoded.ok
          /\ encoded.val.bytes[15] = 0
    /\ hash_index(<<0, 0, 0, 0>>) = 0
    /\ hash_index(<<0, 0, 0, 255>>) = 53

\* an image of several pixels that starts with (0,0,0,0) has been encoded
C13_Witness ==
    /\ StartsTransparent
    /\ encoded.ok
    /\ encoded.val.bytes[15] = 0
    /\ input.width * input.height >= 2

\* the 3x1 4-channel image of S2
IsScenarioS2 ==
    /\ input.data = <<0, 0, 0, 255, 0, 0, 0, 255, 10, 20, 30, 255>>
    /\ input.width = 3
    /\ input.height = 1

\* C14: the image of S2 is encoded as RUN|1, RGB 10 20 30 between header
\* and end marker; the slice decoder and the stream decoder answer a RUN
\* that is the first opcode with the initial previous pixel (0,0,0,255), and
\* decode the stream of S2 into its three pixels.
C14_S2 ==
    /\ (IsScenarioS2 /\ Encoded) =>
          /\ encoded.ok
          /\ encoded.val.bytes
                = HeaderBytes(3, 4, 0) \o <<193, 254, 10, 20, 30>> \o EndMarker
    /\ (DecodedExact(4) /\ SubSeq(qoi, 5, 13) = <<0, 0, 0, 3, 0, 0, 0, 1, 4>>
          /\ Drop(qoi, 14) = <<193, 254, 10, 20, 30>> \o EndMarker) =>
          /\ decoded.ok
          /\ decoded.val.pixels = <<0, 0, 0, 255, 0, 0, 0, 255, 10, 20, 30, 255>>
    /\ (Decoding /\ ds.pos >= 1 /\ qoi[15] >= 192 /\ qoi[15] <= 253) =>
          Take(ds.out, Len(ds.px)) = with_a(Pixel_new(Len(ds.px)), 255)

\* the stream decoder has decoded the hand-written stream of S2
C14_Witness ==
    /\ DecodedExact(4)
    /\ decoder.val.header.colorspace = 1
    /\ Drop(qoi, 14) = <<193, 254, 10, 20, 30>> \o EndMarker
    /\ encoded = NotYet
    /\ Len(decoder.val.data) = 0
    /\ decoded.ok
    /\ decoded.val.pixels = <<0, 0, 0, 255, 0, 0, 0, 255, 10, 20, 30, 255>>

\* the 2x1 3-channel image of S4
IsScenarioS4 ==
    /\ input.data = <<254, 254, 254, 1, 1, 1>>
    /\ input.width = 2
    /\ input.height = 1

\* C15: the second pixel of the image of S4 is encoded with a LUMA opcode
\* (green delta +3, the other two equal to it), not with DIFF, and both
\* decoders get (1,1,1) back from (254,254,254) by 8-bit wrapping addition.
C15_S4_Wrapping ==
    /\ (IsScenarioS4 /\ Encoded) =>
          /\ encoded.ok
          /\ encoded.val.bytes
                = HeaderBytes(2, 3, 0) \o <<64, 163, 136>> \o EndMarker
    /\ (IsScenarioS4 /\ DecodedExact(3)) =>
          /\ decoded.ok
          /\ decoded.val.pixels = <<254, 254, 254, 1, 1, 1>>
    /\ (IsScenarioS4 /\ DecodedExact(4)) =>
          /\ decoded.ok
          /\ decoded.val.pixels = <<254, 254, 254, 255, 1, 1, 1, 255>>

\* the encoding of S4 has been decoded
C15_Witness ==
    /\ IsScenarioS4
    /\ DecodedExact(3)
    /\ encoded.val.bytes[16] = 163
    /\ decoded.ok
    /\ decoded.val.pixels = <<254, 254, 254, 1, 1, 1>>

\* decode_to_buf or decode_to_vec has returned
DecodeReturned == pc = "done" /\ decoder.ok /\ decoded # NotYet

\* the bytes W*H*channels the decoder was asked to write
RequestedSize == n_pixels(decoder.val.header) * Requested

\* C16: decode_to_buf of either decoder answers OutputBufferTooSmall and
\* leaves the buffer alone when it is shorter than W*H*channels; on a longer
\* one it succeeds on a valid stream, returns W*H*channels and leaves every
\* byte from that index on as it was, also when the buffer is 16 bytes
\* longer than needed.
C16_DecodeToBuf ==
    DecodeReturned =>
        /\ Len(ds.out) < RequestedSize =>
              /\ ~decoded.ok
              /\ decoded.err = [kind |-> "OutputBufferTooSmall",
                                size |-> Len(ds.out),
                                required |-> RequestedSize]
              /\ ds.out = Buffer(Len(ds.out))
        /\ Len(ds.out) >= RequestedSize =>
              /\ decoded.ok
              /\ decoded.val.size = RequestedSize
              /\ Drop(ds.out, RequestedSize)
                    = Buffer(Len(ds.out) - RequestedSize)

\* encode_to_buf has been called with a buffer of the caller
IntoBuffer == input.out_len.some /\ pc \notin {"build", "encode"}

\* 14 + w*h*(C+1) + 8 for the image given to the encoder
MaxLenOfImage == 14 + input.width * input.height * (ImageChannels + 1) + 8

\* C17: encode_to_buf answers OutputBufferTooSmall, with the length of the
\* buffer and encode_max_len(w,h,C), exactly when the buffer is shorter than
\* that, and then writes nothing; otherwise it succeeds and returns the
\* number of bytes written: 14, the opcode bytes and 8.
C17_EncodeToBuf ==
    IntoBuffer =>
        /\ input.out_len.v < MaxLenOfImage =>
              /\ encoded = Err([kind |-> "OutputBufferTooSmall",
                                size |-> input.out_len.v,
                                required |-> MaxLenOfImage])
              /\ es.buf.bytes = <<>>
              /\ es.i = 0
        /\ input.out_len.v >= MaxLenOfImage =>
              /\ ~es.buf.panic
              /\ encoded.ok \/ encoded = NotYet
              /\ Len(es.buf.bytes) + es.buf.room = input.out_len.v - 14
              /\ encoded.ok =>
                    /\ encoded.val.size = Len(encoded.val.bytes)
                    /\ encoded.val.size = 14 + Len(es.buf.bytes)
                    /\ encoded.val.bytes
                          = ImageHeaderBytes \o es.buf.bytes
                    /\ Drop(es.buf.bytes, Len(es.buf.bytes) - 8) = EndMarker

\* a buffer one byte short was refused, and a longer one than needed filled
C17_Witness ==
    /\ IntoBuffer
    /\ input.out_len.v = MaxLenOfImage - 1
    /\ input.width * input.height >= 2
    /\ ~encoded.ok
    /\ encoded.err.kind = "OutputBufferTooSmall"

\* Encoder::new(data, w, h) has returned
NewReturned ==
    /\ ~input.stride.some
    /\ ~input.source_channels.some
    /\ pc # "build"

\* C18: Encoder::new(data, w, h) with w, h >= 1 gives 3 channels exactly
\* when len(data) = w*h*3, 4 channels exactly when len(data) = w*h*4, and
\* InvalidImageLength with the length, w and h otherwise; with w = 0 or
\* h = 0 it gives an error, not a panic.
C18_ChannelInference ==
    NewReturned =>
        LET len == Len(input.data)
            area == input.width * input.height
        IN  /\ (input.width >= 1 /\ input.height >= 1) =>
                  /\ (encoder.ok /\ encoder.val.header.channels = 3)
                        <=> len = area * 3
                  /\ (encoder.ok /\ encoder.val.header.channels = 4)
                        <=> len = area * 4
                  /\ encoder.ok =>
                        /\ encoder.val.header.channels \in {3, 4}
                        /\ encoder.val.header.width = input.width
                        /\ encoder.val.header.height = input.height
                  /\ ~encoder.ok =>
                        encoder = Err([kind |-> "InvalidImageLength",
                                       size |-> len, width |-> input.width,
                                       height |-> input.height])
            /\ (input.width = 0 \/ input.height = 0) =>
                  /\ ~encoder.ok
                  /\ ~IsPanic(encoder)
                  /\ encoder # NotYet

\* 12 bytes were taken as a 2x2 image of 3 channels
C18_Witness ==
    /\ NewReturned
    /\ Len(input.data) = 12
    /\ input.width = 2
    /\ input.height = 2
    /\ encoder.ok
    /\ encoder.val.header.channels = 3

\* the layout the builder was given
Layout == input.source_channels.v

\* the bytes of one source pixel in canonical order: R,G,B or R,G,B,A
Canonical(sc, c) ==
    CASE sc = "Rgb" -> c
      [] sc = "Bgr" -> <<c[3], c[2], c[1]>>
      [] sc = "Rgba" -> c
      [] sc = "Argb" -> <<c[2], c[3], c[4], c[1]>>
      [] sc = "Bgra" -> <<c[3], c[2], c[1], c[4]>>
      [] sc = "Abgr" -> <<c[4], c[3], c[2], c[1]>>
      [] sc = "Rgbx" -> <<c[1], c[2], c[3]>>
      [] sc = "Xrgb" -> <<c[2], c[3], c[4]>>
      [] sc = "Bgrx" -> <<c[3], c[2], c[1]>>
      [] sc = "Xbgr" -> <<c[4], c[3], c[2]>>

\* bytes a source pixel takes, and channels of the image, for each layout
LayoutBytes(sc) == IF sc \in {"Rgb", "Bgr"} THEN 3 ELSE 4
LayoutChannels(sc) == IF sc \in {"Rgba", "Argb", "Bgra", "Abgr"} THEN 4 ELSE 3
XLayouts == {"Rgbx", "Xrgb", "Bgrx", "Xbgr"}

\* the pixels of w*h source pixels that start at each multiple of stride,
\* in canonical order
RECURSIVE CanonicalRows(_, _, _, _, _)
CanonicalRows(sc, data, w, h, stride) ==
    IF h = 0 THEN <<>>
    ELSE Flatten([k \in 1..w |->
                     Canonical(sc, SubSeq(data, (k - 1) * LayoutBytes(sc) + 1,
                                          k * LayoutBytes(sc)))])
            \o CanonicalRows(sc, Drop(data, stride), w, h - 1, stride)

\* the encoder's loop run over pixels given in canonical order
RECURSIVE EncodeAll(_, _, _, _)
EncodeAll(e, pixels, C, np) ==
    IF pixels = <<>> THEN e
    ELSE EncodeAll(encode_pixel(e, IF C = 3 THEN "Rgb" ELSE "Rgba",
                                Take(pixels, C), np, reference),
                   Drop(pixels, C), C, np)

\* the encoding of a w x h image of C channels given in canonical order
PlainEncoding(pixels, w, h, C) ==
    Header_encode([width |-> w, height |-> h, channels |-> C,
                   colorspace |-> 0])
        \o encode_finish(EncodeAll(encode_init(C, BytesMut_new(Len(pixels) * 2 + 8)),
                                   pixels, C, w * h)).buf.bytes

\* the first bytes of the opcodes in a string of opcodes
RECURSIVE Tags(_)
Tags(ops) ==
    IF ops = <<>> THEN {}
    ELSE LET b1 == ops[1]
             n == IF b1 = 254 THEN 4
                  ELSE IF b1 = 255 THEN 5
                  ELSE IF b1 >= 128 /\ b1 <= 191 THEN 2
                  ELSE 1
         IN  {b1} \cup Tags(Drop(ops, Min(n, Len(ops))))

\* the builder was given a layout and no stride
WithLayout == input.source_channels.some /\ ~input.stride.some

\* C19: for each of the ten layouts the image has 3 channels (RGB, BGR and
\* the four layouts with an X byte) or 4 (RGBA, ARGB, BGRA, ABGR), its
\* encoding is the encoding of the source pixels put in the order R,G,B(,A),
\* which decodes to just these pixels; so an X byte changes no encoded byte,
\* and no RGBA opcode is written for a layout with an X byte.
C19_SourceLayouts ==
    WithLayout =>
        LET pixels == CanonicalRows(Layout, input.data, input.width,
                                    input.height,
                                    input.width * LayoutBytes(Layout))
        IN  /\ pc # "build" =>
                  /\ encoder.ok
                  /\ encoder.val.header.channels = LayoutChannels(Layout)
            /\ Encoded =>
                  /\ encoded.ok
                  /\ encoded.val.bytes
                        = PlainEncoding(pixels, input.width, input.height,
                                        LayoutChannels(Layout))
            /\ (Layout \in XLayouts /\ pc # "build") =>
                  255 \notin Tags(es.buf.bytes)
            /\ (pc = "done" /\ Requested = LayoutChannels(Layout)) =>
                  /\ decoded.ok
                  /\ decoded.val.header.channels = LayoutChannels(Layout)
                  /\ decoded.val.pixels = pixels

\* two XBGR pixels that differ in the X byte only were encoded as a run
C19_Witness ==
    /\ WithLayout
    /\ Layout = "Xbgr"
    /\ input.data = <<9, 2, 3, 4, 1, 2, 3, 4>>
    /\ pc = "done"
    /\ Requested = 3
    /\ decoded.ok
    /\ decoded.val.pixels = <<4, 3, 2, 4, 3, 2>>
    /\ encoded.val.bytes[Len(encoded.val.bytes) - 8] = 192

\* the builder was given a stride, for an image that is not empty
WithStride == input.stride.some /\ input.width >= 1 /\ input.height >= 1

\* C20: with an explicit stride, build answers InvalidImageStride when the
\* stride is less than the bytes of a row of pixels or the data is too
\* short for H rows (len < stride*(H-1) + row bytes), and succeeds otherwise,
\* so also for data of H whole strides; the encoder then encodes the pixels
\* at the start of each row, whatever lies between them.
C20_StrideValidation ==
    (WithStride /\ pc # "build") =>
        LET stride == input.stride.v
            row == input.width * LayoutBytes(Layout)
            need == stride * (input.height - 1) + row
            len == Len(input.data)
        IN  /\ (stride < row \/ len < need) =>
                  encoder = Err([kind |-> "InvalidImageStride", size |-> len,
                                 width |-> input.width,
                                 height |-> input.height, stride |-> stride])
            /\ (stride >= row /\ len >= need) => encoder.ok
            /\ (stride >= row /\ len >= need /\ Encoded) =>
                  /\ encoded.ok
                  /\ encoded.val.bytes
                        = PlainEncoding(CanonicalRows(Layout, input.data,
                                            input.width, input.height, stride),
                                        input.width, input.height,
                                        LayoutChannels(Layout))

\* C21: nothing panics.  Whenever build() has returned Ok the encoding runs
\* to its end without a panic, having visited exactly width * height
\* pixels, and a decoding ends in Ok or Err, never in a panic.
C21_NoPanic ==
    /\ (encoder.ok /\ pc = "done") =>
          /\ ~IsPanic(encoded)
          /\ encoded.ok => es.i = input.width * input.height
    /\ ~IsPanic(decoded)

\* the decoding loop of the slice decoder run to its end
RECURSIVE SliceLoop(_, _)
SliceLoop(d, RGBA) ==
    IF d.pos >= d.slots \/ d.err.some THEN d
    ELSE SliceLoop(decode_op(d, RGBA), RGBA)

\* the decoding loop of the stream decoder run to its end
RECURSIVE StreamLoop(_, _)
StreamLoop(d, RGBA) ==
    IF d.pos >= d.slots \/ d.err.some THEN d
    ELSE StreamLoop(stream_decode_op(d, RGBA), RGBA)

\* what the slice decoder returns for the bytes after the header: the
\* pixels or an error
SliceRun(data, out, N, RGBA) ==
    LET d == SliceLoop(decode_init(data, out, N), RGBA)
    IN  IF d.err.some THEN Err(d.err.v)
        ELSE IF ~decode_finish(d).ok THEN decode_finish(d)
        ELSE Ok(d.out)

\* what the stream decoder returns for them
StreamRun(data, out, N, RGBA) ==
    LET d == StreamLoop(decode_init(data, out, N), RGBA)
    IN  IF d.err.some THEN Err(d.err.v)
        ELSE IF ~stream_decode_finish(d).ok THEN stream_decode_finish(d)
        ELSE Ok(d.out)

\* the instance of the decoding loop the decoder has chosen
InstanceN == decode_N(decoder.val.channels, decoder.val.header.channels)
InstanceRGBA == decode_RGBA(decoder.val.channels, decoder.val.header.channels)

\* C22: the stream decoder and the slice decoder agree.  From the same
\* state one turn of either loop fails in both or leaves the same state in
\* both, with the same bytes consumed, and for the same bytes, requested
\* channels and buffer length both decoders succeed with the same pixels
\* or both fail.
C22_StreamSliceEquivalence ==
    /\ (pc \in {"decode_loop", "stream_decode_loop"}
           /\ ds.pos < ds.slots /\ ~ds.err.some) =>
          LET a == decode_op(ds, InstanceRGBA)
              b == stream_decode_op(ds, InstanceRGBA)
          IN  /\ a.err.some <=> b.err.some
              /\ ~a.err.some => a = b
    /\ (pc = "done" /\ decoder.ok /\ Len(ds.out) >= RequestedSize
           /\ ~cast_slice_mut_panics(ds.out, InstanceN)) =>
          LET data == Drop(qoi, QOI_HEADER_SIZE)
              slice == SliceRun(data, Zeros(Len(ds.out)), InstanceN,
                                InstanceRGBA)
              stream == StreamRun(data, Zeros(Len(ds.out)), InstanceN,
                                  InstanceRGBA)
          IN  /\ decoded.ok <=> slice.ok
              /\ decoded.ok <=> stream.ok
              /\ decoded.ok => /\ decoded.val.pixels = slice.val
                               /\ decoded.val.pixels = stream.val

\* what encode_to_buf writes for the image given to the encoder
BufEncoding ==
    PlainEncoding(input.data, input.width, input.height, ImageChannels)

\* whether the sink takes n bytes
SinkTakes(n) == ~input.out_len.some \/ n <= input.out_len.v

\* C23: encode_to_stream writes to the sink the bytes encode_to_buf
\* produces for the same encoder, header, opcodes and end marker, and
\* returns their count.  When a write to the sink fails it returns the i/o
\* error, and from then on no write is made on the sink: what the sink holds
\* is the start of those bytes.
C23_EncodeToStream ==
    /\ []((pc = "done" /\ encoder.ok) =>
            IF SinkTakes(Len(BufEncoding))
            THEN /\ encoded = Ok([bytes |-> BufEncoding,
                                  size |-> Len(BufEncoding)])
                 /\ es.buf.bytes = BufEncoding
                 /\ ~es.buf.failed
            ELSE /\ encoded = Err([kind |-> "IoError"])
                 /\ es.buf.failed
                 /\ es.buf.bytes = Take(BufEncoding, input.out_len.v))
    /\ [][(IsGenericWriter(es.buf) /\ es.buf.failed) =>
            /\ es'.buf.calls = es.buf.calls
            /\ es'.buf.bytes = es.buf.bytes
            /\ encoded' = Err([kind |-> "IoError"])
            /\ pc' = "done"
         ]_vars

\* a sink that fails in the middle of the opcodes: the header and some
\* opcode bytes are in it and the call has returned the i/o error
C23_Witness ==
    /\ pc = "done"
    /\ encoded = Err([kind |-> "IoError"])
    /\ Len(es.buf.bytes) > QOI_HEADER_SIZE + 1
    /\ es.i < input.width * input.height
    /\ es.buf.calls >= 3

\* a wrapping 8-bit difference read as a signed number
Signed(d) == IF d >= 128 THEN d - 256 ELSE d

\* the opcode of the priority list for an RGBA pixel that is neither a
\* repeat nor in the index, by the ranges of its deltas
RefLiteral(px, prev) ==
    IF px[4] # prev[4] THEN <<255, px[1], px[2], px[3], px[4]>>
    ELSE LET dr == Signed(wrapping_sub(px[1], prev[1]))
             dg == Signed(wrapping_sub(px[2], prev[2]))
             db == Signed(wrapping_sub(px[3], prev[3]))
             dr_dg == Signed((dr - dg) % 256)
             db_dg == Signed((db - dg) % 256)
         IN  IF {dr, dg, db} \subseteq -2..1
             THEN <<64 + (dr + 2) * 16 + (dg + 2) * 4 + (db + 2)>>
             ELSE IF dg \in -32..31 /\ {dr_dg, db_dg} \subseteq -8..7
             THEN <<128 + (dg + 32), (dr_dg + 8) * 16 + (db_dg + 8)>>
             ELSE <<254, px[1], px[2], px[3]>>

\* the reference selection procedure of the priority list over a sequence
\* of RGBA pixels, from r = [prev, index, run, out, alt]: out is the bytes,
\* alt the same bytes with INDEX | hash(prev) where a run of one is flushed
\* before a pixel that differs
RECURSIVE RefEncode(_, _)
RefEncode(r, pixels) ==
    IF pixels = <<>> THEN r
    ELSE LET px == Head(pixels)
             last == Len(pixels) = 1
             h == hash_index(px)
             flush == IF r.run = 0 THEN <<>> ELSE <<192 + (r.run - 1)>>
             flush_alt == IF r.run = 1 /\ r.seen THEN <<hash_index(r.prev)>>
                          ELSE flush
         IN  IF px = r.prev
             THEN IF r.run + 1 = 62 \/ last
                  THEN RefEncode([r EXCEPT !.run = 0,
                                     !.out = @ \o <<192 + r.run>>,
                                     !.alt = @ \o <<192 + r.run>>],
                                 Tail(pixels))
                  ELSE RefEncode([r EXCEPT !.run = @ + 1], Tail(pixels))
             ELSE IF r.index[h] = px
             THEN RefEncode([r EXCEPT !.run = 0, !.prev = px, !.seen = TRUE,
                                !.out = @ \o flush \o <<h>>,
                                !.alt = @ \o flush_alt \o <<h>>],
                            Tail(pixels))
             ELSE RefEncode([r EXCEPT !.run = 0, !.prev = px, !.seen = TRUE,
                                !.index = [@ EXCEPT ![h] = px],
                                !.out = @ \o flush \o RefLiteral(px, r.prev),
                                !.alt = @ \o flush_alt
                                          \o RefLiteral(px, r.prev)],
                            Tail(pixels))

\* the pixels of the image given to the encoder, as RGBA
ImagePixels ==
    [k \in 1..(input.width * input.height) |->
        LET at == (k - 1) * ImageChannels
        IN  <<input.data[at + 1], input.data[at + 2], input.data[at + 3],
              IF ImageChannels = 4 THEN input.data[at + 4] ELSE 255>>]

\* the reference procedure run over the image, between header and end marker
Reference ==
    LET r == RefEncode([prev |-> <<0, 0, 0, 255>>,
                        index |-> [k \in 0..63 |-> <<0, 0, 0, 0>>],
                        run |-> 0, seen |-> FALSE, out |-> <<>>,
                        alt |-> <<>>], ImagePixels)
    IN  [out |-> ImageHeaderBytes \o r.out \o EndMarker,
         alt |-> ImageHeaderBytes \o r.alt \o EndMarker]

\* C24: in reference mode the encoding is, byte for byte, what the
\* selection procedure of the priority list produces, every pending run
\* being flushed as RUN | (run - 1).  In the default mode the encoding has
\* the same length and differs from it only where RUN | 0 is replaced by
\* INDEX | hash(previous pixel).
C24_ReferenceMode ==
    (pc = "decoder_new" /\ encoded.ok) =>
        LET out == encoded.val.bytes
            ref == Reference
        IN  IF reference THEN out = ref.out
            ELSE /\ Len(out) = Len(ref.out)
                 /\ \A k \in 1..Len(out) :
                       \/ out[k] = ref.out[k]
                       \/ /\ ref.out[k] = BitOr(QOI_OP_RUN, 0)
                          /\ out[k] = ref.alt[k]
                          /\ out[k] <= QOI_OP_INDEX_END

\* a default-mode encoding that differs from the reference one, and so in
\* an INDEX for a RUN of one
C24_Witness ==
    /\ pc = "decoder_new"
    /\ encoded.ok
    /\ ~reference
    /\ encoded.val.bytes # Reference.out
    /\ Len(encoded.val.bytes) = Len(Reference.out)

\* the bytes after the header, without the surplus bytes
WithoutSurplus == Take(Drop(qoi, QOI_HEADER_SIZE),
                       Len(qoi) - QOI_HEADER_SIZE - tamper.k)

\* C25: bytes after the end marker change nothing.  Whenever a decoder
\* returns for a stream with surplus bytes, and the same stream without
\* them decodes, it returns Ok with the same header and the same pixels;
\* the stream decoder has read the 8 bytes of the end marker after the last
\* opcode and leaves the surplus bytes in the reader.
C25_SurplusIgnored ==
    [][(tamper.kind = "surplus" /\ pc' = "done"
            /\ pc \in {"decode_loop", "stream_decode_loop"}) =>
          LET out == Zeros(Len(ds.out))
              plain == IF pc = "decode_loop"
                       THEN SliceRun(WithoutSurplus, out, InstanceN,
                                     InstanceRGBA)
                       ELSE StreamRun(WithoutSurplus, out, InstanceN,
                                      InstanceRGBA)
          IN  plain.ok =>
                 /\ decoded'.ok
                 /\ decoded'.val.pixels = plain.val
                 /\ decoded'.val.header = decoder.val.header
                 /\ pc = "stream_decode_loop" =>
                       /\ decoder'.val.data = Surplus(tamper.k)
                       /\ Len(ds.data) - Len(decoder'.val.data)
                             = QOI_PADDING_SIZE
      ]_vars

\* the stream decoder has returned two pixels of a stream with three
\* surplus bytes, which are what is left in the reader
C25_Witness ==
    /\ pc = "done"
    /\ tamper = [kind |-> "surplus", k |-> 3]
    /\ decoded.ok
    /\ decoded.val.pixels = <<10, 20, 30, 255, 1, 2, 3, 4>>
    /\ decoder.val.data = Surplus(3)

\* C26: the opcode of each pixel follows the priority list.  A pixel equal
\* to the previous one changes only the run counter, and a RUN is written
\* for it only when the run reaches 62 or the image ends.  Before any other
\* pixel the pending run is flushed; then INDEX is written if the slot of
\* the pixel's hash holds the pixel, the index being left as it is; if not
\* the slot is overwritten and the opcode is DIFF, else LUMA, else RGB when
\* the alpha is that of the previous pixel, and RGBA when it is not.  The
\* previous pixel becomes the current one after every pixel that is not a
\* repeat, also after INDEX.
C26_OpcodePriority ==
    [][(pc = "encode_loop" /\ es'.i = es.i + 1) =>
          LET px == ImagePixels[es.i + 1]
              prev == as_rgba(es.px_prev, 255)
              h == hash_index(px)
              new == Drop(es'.buf.bytes, Len(es.buf.bytes))
              flushed == IF es.run = 0 THEN 0 ELSE 1
              own == Drop(new, flushed)
          IN  IF px = prev
              THEN /\ es'.index = es.index
                   /\ es'.px_prev = es.px_prev
                   /\ IF es.run + 1 = 62
                         \/ es.i + 1 = input.width * input.height
                      THEN new = <<192 + es.run>> /\ es'.run = 0
                      ELSE new = <<>> /\ es'.run = es.run + 1
              ELSE /\ es.run # 0 =>
                         \/ new[1] = 192 + (es.run - 1)
                         \/ /\ ~reference /\ es.run = 1
                            /\ new[1] = hash_index(prev)
                   /\ IF es.index[h] = px
                      THEN own = <<h>> /\ es'.index = es.index
                      ELSE /\ own = RefLiteral(px, prev)
                           /\ es'.index = [es.index EXCEPT ![h] = px]
                   /\ as_rgba(es'.px_prev, 255) = px
                   /\ es'.run = 0
      ]_vars

\* the third pixel is in the index and one DIFF step from the second: the
\* encoder has written INDEX for it
C26_Witness ==
    /\ pc = "encode_loop"
    /\ input.data = <<1, 255, 0, 255, 0, 0, 0, 255, 1, 255, 0, 255>>
    /\ es.i = 3
    /\ Len(RefLiteral(ImagePixels[3], ImagePixels[2])) = 1
    /\ es.buf.bytes[3] = hash_index(<<1, 255, 0, 255>>)
    /\ Len(es.buf.bytes) = 3
    /\ es.px_prev = <<1, 255, 0, 255>>

\* the encoder is in its loop or has just left it
InEncodeLoop == pc = "encode_loop" \/ (pc = "decoder_new" /\ encoded.ok)

EncoderAfter(k) ==
    EncodeAll(encode_init(ImageChannels,
                          BytesMut_new(k * (ImageChannels + 1))),
              Take(input.data, k * ImageChannels), ImageChannels,
              input.width * input.height)

\* the first byte of the opcode the decoder is about to read
NextTag == ds.data[1]

AtRun ==
    /\ pc \in {"decode_loop", "stream_decode_loop"}
    /\ ds.pos < ds.slots /\ ~ds.err.some
    /\ ds.data # <<>>
    /\ NextTag >= QOI_OP_RUN /\ NextTag <= QOI_OP_RUN_END

\* C29: a RUN with payload p writes the previous pixel 1 + p times, or as
\* many times as pixels of the image are still to be written if that is
\* less, consumes one byte and changes neither the previous pixel nor the
\* index; nothing is written beyond the W*H-th pixel of the output.
C29_DecoderRun ==
    [][(AtRun /\ ds' # ds) =>
          LET np == n_pixels(decoder.val.header)
              count == Min(1 + (NextTag - QOI_OP_RUN), np - ds.pos)
          IN  /\ ds'.out = fill_pixels(ds.out, ds.pos, count, ds.px)
              /\ ds'.pos = ds.pos + count
              /\ ds'.pos <= np
              /\ Len(ds.data) - Len(ds'.data) = 1
              /\ ds'.px = ds.px
              /\ ds'.index = ds.index
      ]_vars

\* the decoder is about to read the opcode byte tag, followed by at least
\* n operand bytes
AtLiteral(tag, n) ==
    /\ pc \in {"decode_loop", "stream_decode_loop"}
    /\ ds.pos < ds.slots /\ ~ds.err.some
    /\ Len(ds.data) >= 1 + n
    /\ NextTag = tag

\* the state of the decoder after a literal of len bytes that sets the
\* previous pixel to px
AfterLiteral(px, len) ==
    /\ ds'.px = px
    /\ ds'.index = [ds.index EXCEPT ![hash_index(px)] = px]
    /\ ds'.out = put_pixel(ds.out, ds.pos, px)
    /\ ds'.pos = ds.pos + 1
    /\ ds'.data = Drop(ds.data, len)

\* C30: the literal opcodes are decoded the same whatever channel count the
\* header has.  The byte 0xFF sets R, G, B, A from the next 4 bytes (the
\* alpha only if the decoder keeps one), stores the pixel in the index,
\* writes one pixel and consumes 5 bytes; the byte 0xFE sets R, G, B from
\* the next 3 bytes, keeps the alpha and consumes 4 bytes.
C30_Literals ==
    [][/\ (AtLiteral(QOI_OP_RGBA, 4) /\ ds' # ds) =>
             AfterLiteral(Take(<<ds.data[2], ds.data[3], ds.data[4],
                                 ds.data[5]>>, Len(ds.px)), 5)
       /\ (AtLiteral(QOI_OP_RGB, 3) /\ ds' # ds) =>
             AfterLiteral([ds.px EXCEPT ![1] = ds.data[2], ![2] = ds.data[3],
                                        ![3] = ds.data[4]], 4)
      ]_vars

\* C31: the alpha of a 3-channel stream decoded with 4 channels is 0xFF.
\* Whenever a stream whose header declares 3 channels has been decoded with
\* 4 requested channels, every pixel of the image returned has A = 255, also
\* the pixels of INDEX opcodes that address a slot never written.
C31_SynthesizedAlpha ==
    (pc = "done" /\ decoder.ok /\ decoded.ok
        /\ decoder.val.header.channels = 3 /\ Requested = 4) =>
        \A k \in 1..n_pixels(decoder.val.header) :
            decoded.val.pixels[4 * k] = 255

\* the number of pixels the opcodes of a string of opcodes stand for
RECURSIVE Covered(_)
Covered(ops) ==
    IF ops = <<>> THEN 0
    ELSE LET b1 == ops[1]
         IN  IF b1 = QOI_OP_RGB THEN 1 + Covered(Drop(ops, 4))
             ELSE IF b1 = QOI_OP_RGBA THEN 1 + Covered(Drop(ops, 5))
             ELSE IF b1 >= QOI_OP_RUN
             THEN (b1 - QOI_OP_RUN) + 1 + Covered(Drop(ops, 1))
             ELSE IF b1 >= QOI_OP_LUMA THEN 1 + Covered(Drop(ops, 2))
             ELSE 1 + Covered(Drop(ops, 1))

\* C32: the run counter of the encoder.  Between pixels it lies in 0..61,
\* and it is 0 once the last pixel of the image has been processed.  The
\* pixels the opcodes written so far stand for, and the pending run, are
\* the pixels consumed.  Every byte written for a run is a RUN opcode of
\* 0xC0..0xFD, or the INDEX that stands for a run of one: never 0xFE or
\* 0xFF.
C32_RunCounter ==
    /\ [](pc = "encode_loop" =>
            /\ es.run \in 0..61
            /\ es.i = input.width * input.height => es.run = 0
            /\ Covered(es.buf.bytes) + es.run = es.i)
    /\ [][(pc = "encode_loop" /\ es'.i = es.i + 1) =>
            LET new == Drop(es'.buf.bytes, Len(es.buf.bytes))
                repeat == ImagePixels[es.i + 1] = as_rgba(es.px_prev, 255)
            IN  /\ (repeat /\ new # <<>>) =>
                      /\ Len(new) = 1
                      /\ new[1] = QOI_OP_RUN + es.run
                      /\ new[1] \in QOI_OP_RUN..QOI_OP_RUN_END
                /\ (~repeat /\ es.run # 0) =>
                      \/ /\ new[1] = QOI_OP_RUN + es.run - 1
                         /\ new[1] \in QOI_OP_RUN..QOI_OP_RUN_END
                      \/ es.run = 1 /\ new[1] <= QOI_OP_INDEX_END
         ]_vars

\* 63 equal pixels have been read and one more is to come: RUN | 61 has
\* been written for 62 of them and a run of one is pending
C32_Witness ==
    /\ pc = "encode_loop"
    /\ es.i = 63
    /\ input.width * input.height = 64
    /\ es.buf.bytes = <<QOI_OP_RUN_END>>
    /\ es.run = 1

\* C33: decoding terminates.  Each turn of a decoding loop fails or writes
\* at least one pixel, also when the opcode byte is not recognised and no
\* byte is consumed, and writes none beyond the W*H pixels of the image, so
\* that after at most W*H turns the loop is left; every decoding comes to
\* its end, with Ok or an error.
C33_Termination ==
    /\ [][(pc \in {"decode_loop", "stream_decode_loop"} /\ ds' # ds) =>
            /\ ds'.err.some \/ ds'.pos > ds.pos
            /\ ds'.pos <= n_pixels(decoder.val.header)
         ]_vars
    /\ <>(pc = "done" /\ decoded # NotYet)

\* C34: the hash of a pixel.  hash_index, computed on wrapping bytes, is
\* (3 R + 5 G + 7 B + 11 A) mod 64 computed on integers, where the A of a
\* 3-channel pixel is 255; it lies in 0..63, so that the index is never
\* addressed beyond its end, by a hash or by the payload of an INDEX
\* opcode; the hash of (0,0,0) is that of (0,0,0,255), 53.
C34_PixelHash ==
    (pc = "hash_done") =>
        LET px == hdr.args
            A == IF Len(px) = 4 THEN px[4] ELSE 255
        IN  /\ hdr.res = Ok((3 * px[1] + 5 * px[2] + 7 * px[3] + 11 * A) % 64)
            /\ hdr.res.val \in 0..63
            /\ hdr.res.val < IndexLen
            /\ QOI_OP_INDEX_END < IndexLen
            /\ Len(px) = 3 =>
                  hdr.res.val = hash_index(<<px[1], px[2], px[3], 255>>)
            /\ px \in {<<0, 0, 0>>, <<0, 0, 0, 255>>} => hdr.res.val = 53

\* a 3-channel pixel whose products with 3, 5, 7 and 11 all wrap
C34_Witness ==
    /\ pc = "hash_done"
    /\ hdr.args = <<86, 52, 200>>
    /\ hdr.res = Ok(51)

\* C35: the cursor of the slice decoder.  When QoiDecoder::decode_to_buf
\* (or decode_to_vec) returns Ok, the input the decoder is left with is
\* what follows the end marker of the image: the cursor has moved by the
\* opcode bytes and the 8 bytes of the end marker.  The offset the input is
\* re-sliced at is never beyond its end, so the re-slicing does not panic.
C35_SliceCursor ==
    [][(pc = "decode_loop" /\ pc' = "done") =>
          /\ ~IsPanic(decoded')
          /\ decoded'.ok =>
                /\ decoder'.val.data = Drop(ds.data, QOI_PADDING_SIZE)
                /\ Len(decoder.val.data) - Len(decoder'.val.data)
                      = (ds.data_len - Len(ds.data)) + QOI_PADDING_SIZE
      ]_vars

=============================================================================
